---- MODULE Spec2Model ----
(***************************************************************************)
(* Brickwatch agent: the workflow runner (BrickwatchStrandRunner), the     *)
(* workflow step library (validate_recommendations, apply_rightsizing,     *)
(* verify_optimization) and the asynchronous execution dispatcher          *)
(* (POST /v1/automation and the Lambda handler).                           *)
(*                                                                         *)
(* External collaborators (EC2, SSM, Lambda invoke, the AgentCore gateway) *)
(* are opaque: every call returns one of the outcomes the client library   *)
(* can produce, chosen nondeterministically.                               *)
(***************************************************************************)
EXTENDS Integers, Sequences, FiniteSets, TLC

--------------------------------------------------------------------------
(* Bounds of the model *)

\* Longest recommendation list handed to one runner run.
MaxRecs == 2
\* Number of requests to POST /v1/automation (and so of executions).
MaxSubmits == 2

\* The largest limit a caller passes to the collector.
MaxLimit == 2

\* The longest window, in days, a caller asks analyze_cost for.
MaxDays == 2

--------------------------------------------------------------------------
(* Values *)

\* A missing key: dict.get() returns None, which is falsy.
None == "None"

Truthy(v) == v # None /\ v # ""

\* a or b
Or(a, b) == IF Truthy(a) THEN a ELSE b

\* dict.get(key, default) on a record used as a dict
Get(d, key, default) == IF key \in DOMAIN d THEN d[key] ELSE default

\* dict.update(other): the keys of other overwrite those of d
Update(d, other) ==
    [f \in (DOMAIN d) \cup (DOMAIN other) |->
        IF f \in DOMAIN other THEN other[f] ELSE d[f]]

RunIds == 1..MaxSubmits

Types == {"r5.large", "t3.medium"}

\* strands_workflows.py:168 and :183, WaiterConfig
WaiterDelay == 10
WaiterMaxAttempts == 30
WaiterConfig == [Delay |-> WaiterDelay, MaxAttempts |-> WaiterMaxAttempts]

(* Recommendation records as the callers build them.  A recommendation is  *)
(* a dict; keys it lacks are None here.                                    *)
Rec(rtype, id, camelId, cur, camelCur, rec, camelRec, savings) ==
    [resource_type |-> rtype,
     instance_id |-> id, instanceId |-> camelId,
     current_instance_type |-> cur, currentType |-> camelCur,
     recommended_instance_type |-> rec, recommendedType |-> camelRec,
     estimated_monthly_savings |-> savings]

RecEc2 == Rec("EC2", "i-1", None, "r5.large", None, "t3.medium", None, "$50.00")
RecCamel == Rec("EC2", None, "i-2", None, "r5.large", None, "t3.medium", None)
RecNoId == Rec("S3", None, None, "r5.large", None, "t3.medium", None, "$5.00")
RecNoCurrent == Rec("EC2", "i-1", None, None, None, "t3.medium", None, "$50.00")
RecNoTarget == Rec("EC2", "i-2", None, "r5.large", None, None, None, "$50.00")

RecPool == {RecEc2, RecCamel, RecNoId, RecNoCurrent, RecNoTarget}

SeqsUpTo(S, n) == UNION {[1..m -> S] : m \in 0..n}

RecLists == SeqsUpTo(RecPool, MaxRecs)

--------------------------------------------------------------------------
(* strands_runner.py: the workflow registry *)

WORKFLOW_LIBRARY ==
    [optimize_existing_instances |->
        <<"validate_recommendations", "apply_rightsizing", "verify_optimization">>,
     rightsizing |->
        <<"collect_cost_evidence", "collect_optimizer_signals", "draft_action_plan",
          "approve_plan", "apply_fix", "verify_outcome">>,
     rightsizing_rds |->
        <<"collect_cost_evidence", "collect_rds_metrics", "draft_action_plan",
          "approve_plan", "apply_fix", "verify_outcome">>,
     rightsizing_lambda |->
        <<"collect_cost_evidence", "collect_lambda_metrics", "draft_action_plan",
          "approve_plan", "apply_fix", "verify_outcome">>,
     schedule_resize |->
        <<"collect_targets", "draft_schedule", "approve_plan", "publish_schedule",
          "verify_outcome">>,
     shutdown_idle |->
        <<"identify_idle_resources", "draft_shutdown_plan", "approve_plan",
          "apply_fix", "verify_outcome">>]

\* The action names a caller passes to run().
ActionNames ==
    (DOMAIN WORKFLOW_LIBRARY) \cup {"Optimize-Existing-Instances", "no_such_action"}

\* action.replace("-", "_").lower() on the action names of the model
ActionKey(action) ==
    IF action = "Optimize-Existing-Instances" THEN "optimize_existing_instances"
    ELSE action

\* Mutation of WorkflowBlueprint: an unknown action falls back to the
\* blueprint whose steps are registered.
WorkflowBlueprintFallsBackToOptimize(action) ==
    IF ActionKey(action) \in DOMAIN WORKFLOW_LIBRARY
    THEN WORKFLOW_LIBRARY[ActionKey(action)]
    ELSE WORKFLOW_LIBRARY["optimize_existing_instances"]

\* BrickwatchStrandRunner._workflow_blueprint
WorkflowBlueprint(action) ==
    LET key == ActionKey(action)
    IN IF key \in DOMAIN WORKFLOW_LIBRARY
       THEN WORKFLOW_LIBRARY[key]
       ELSE WORKFLOW_LIBRARY["rightsizing"]

\* strands_workflows.py: the step registry
WORKFLOW_STEPS == {"validate_recommendations", "apply_rightsizing", "verify_optimization"}

--------------------------------------------------------------------------
(* State *)

VARIABLES
    action,            \* run -> the action name given to run(), None before
    pc,                \* run -> position of the run
    stepIdx,           \* run -> index in the blueprint of the step in progress
    k,                 \* run -> index in the step's loop over its list
    step_context,      \* run -> the context dict threaded through the steps
    acc,               \* run -> the list the step in progress is building
    total_savings,     \* run -> apply_rightsizing's running total, in cents
    executed,          \* run -> names given to execute_workflow_step, in order
    workflow_results,  \* run -> the runner's result dict
    calls,             \* run -> external calls issued by the run, in order
    ec2_faults,        \* whether calls on EC2 can fail in this behaviour
    AGENTCORE_AVAILABLE, \* app.py: whether the agentcore client was imported
    workflow_endpoint, \* the SSM parameter /rita/workflow-agent/invoke-arn, None if unreadable
    traffic,           \* the HTTP events clients send to POST /v1/automation
    now,               \* the last reading of the clock, in ms
    requests,          \* request -> the HTTP event received, <<>> before
    responses,         \* request -> the HTTP response returned, <<>> before
    dispatched,        \* request -> the async payloads its handler queued
    async_event,       \* request -> the event handled as a workflow execution
    async_result,      \* request -> what that invocation of handler returned
    pol_in,            \* the arguments of a call of a policy helper, <<>> if none
    pol_allowed,       \* what is_instance_type_allowed returned, <<>> before
    pol_recommended,   \* what get_recommended_type returned, <<>> before
    col_pc,            \* the collector's position in get_rightsizing_recommendations
    col_in,            \* the collector's arguments
    col,               \* the collector's locals
    col_calls,         \* the inventory and advisory calls the collector made
    col_result,        \* what the collector returned, <<>> before
    ana_pc,            \* the position of analyze_cost
    ana_in,            \* the arguments of analyze_cost
    ana,               \* the locals of analyze_cost
    ana_calls,         \* the Cost Explorer queries analyze_cost made
    ana_result,        \* what analyze_cost returned or raised, <<>> before
    exe_pc,            \* the position of the executor tool that was called
    exe_in,            \* the tool that was called and its arguments
    exe_idx,           \* the index of the tool's next external call
    exe_calls,         \* the external calls the tool made
    exe_result,        \* the message the tool returned, <<>> before
    plan_in,           \* the recommendations a submit builds its plan from
    plan_out,          \* the execution plan built from them, <<>> before
    wf_pc,             \* the position of the workflow agent's entrypoint
    wf_in,             \* the request given to the entrypoint
    wf,                \* the locals of the entrypoint
    wf_calls,          \* the calls on AWS made during the invocation
    wf_result,         \* what the entrypoint returned, <<>> before
    pag_pc,            \* the position of _paginate_recommendations
    pag_in,            \* its arguments
    pag,               \* its locals
    pag_request,       \* the arguments of its latest request, <<>> before
    pag_result,        \* the rows it returned, <<>> before
    WORKFLOW_AGENT_ENDPOINT, \* the environment variable, None when unset
    STRANDS_AVAILABLE, \* app.py: whether the in-process runner was imported
    ew_pc,             \* the position of the handler of POST /v1/execute-workflow
    ew_request,        \* the request it handles
    ew_posted,         \* the body it posted to the workflow agent, <<>> if none
    ew_answer,         \* the answer of the workflow agent, <<>> if none
    ew_run,            \* the context it gave to the in-process runner, <<>> if none
    ew_response        \* the response it returned, <<>> before

runVars == <<action, pc, stepIdx, k, step_context, acc, total_savings, executed,
             workflow_results, calls>>

apiVars == <<ec2_faults, AGENTCORE_AVAILABLE, workflow_endpoint, traffic, now, requests,
             responses, dispatched, async_event, async_result>>

polVars == <<pol_in, pol_allowed, pol_recommended>>

colVars == <<col_pc, col_in, col, col_calls, col_result>>

anaVars == <<ana_pc, ana_in, ana, ana_calls, ana_result>>

exeVars == <<exe_pc, exe_in, exe_idx, exe_calls, exe_result>>

planVars == <<plan_in, plan_out>>

\* The entry points that are modelled one call at a time.
wfVars == <<wf_pc, wf_in, wf, wf_calls, wf_result>>

pagVars == <<pag_pc, pag_in, pag, pag_request, pag_result>>

ewVars == <<WORKFLOW_AGENT_ENDPOINT, STRANDS_AVAILABLE, ew_pc, ew_request, ew_posted,
            ew_answer, ew_run, ew_response>>

entryVars == <<planVars, wfVars, pagVars, ewVars>>

toolVars == <<polVars, colVars, anaVars, exeVars, entryVars>>

\* What a step of one tool leaves alone: the service and the other tools.
exceptPolicy == <<runVars, apiVars, colVars, anaVars, exeVars, entryVars>>

exceptCollector == <<runVars, apiVars, polVars, anaVars, exeVars, entryVars>>

exceptAnalytics == <<runVars, apiVars, polVars, colVars, exeVars, entryVars>>

exceptExecutor == <<runVars, apiVars, polVars, colVars, anaVars, entryVars>>

exceptPlan == <<runVars, apiVars, polVars, colVars, anaVars, exeVars, wfVars, pagVars,
                ewVars>>

exceptWorkflow == <<runVars, apiVars, polVars, colVars, anaVars, exeVars, planVars,
                    pagVars, ewVars>>

exceptPaginate == <<runVars, apiVars, polVars, colVars, anaVars, exeVars, planVars,
                    wfVars, ewVars>>

\* What the handler of POST /v1/execute-workflow leaves alone, the runs
\* apart.
exceptExecute == <<apiVars, polVars, colVars, anaVars, exeVars, planVars, wfVars,
                   pagVars>>

vars == <<runVars, apiVars, toolVars>>

--------------------------------------------------------------------------
(* External calls *)

\* Outcomes of ec2_client.describe_instances(InstanceIds=[id]):
\*  found: one reservation with the instance, in a state and of a type;
\*  empty: a response whose Reservations list is empty;
\*  client_error: botocore ClientError (InvalidInstanceID.NotFound or another code);
\*  error: any other exception (BotoCoreError, or a response without the
\*         expected keys, which raises KeyError or IndexError).
DescribeOutcomes ==
    {[kind |-> "found", state |-> "running", type |-> t] : t \in Types}
    \cup {[kind |-> "found", state |-> "stopped", type |-> "t3.medium"]}
    \cup {[kind |-> kd, state |-> None, type |-> None] :
            kd \in {"empty", "client_error", "error"}}

\* The outcomes of a lookup in this behaviour: without faults the instance
\* is found.
DescribeSeen ==
    IF ec2_faults THEN DescribeOutcomes
    ELSE {o \in DescribeOutcomes : o.kind = "found"}

\* Outcomes of stop_instances, modify_instance_attribute, start_instances.
CallOutcomes == {"ok", "ClientError"}

\* Outcomes of waiter.wait(..., WaiterConfig): the state was reached, or the
\* waiter ran out of attempts or met a failure state and raised WaiterError.
WaitOutcomes == {"ok", "WaiterError"}

\* What a call that is not a lookup reports of the instance: nothing.
NoOutcome == [kind |-> None, state |-> None, type |-> None]

\* The record of one external call in the run's call log: the operation, the
\* instance id given, the outcome, what a lookup saw, and the WaiterConfig given.
CallRecord(op, id, outcome, seen, cfg) ==
    [op |-> op, id |-> id, outcome |-> outcome, seen |-> seen, cfg |-> cfg]

\* run r issues an external call
Issue(r, op, id, outcome, seen, cfg) ==
    calls' = [calls EXCEPT ![r] = Append(@, CallRecord(op, id, outcome, seen, cfg))]

NoCall == UNCHANGED calls

--------------------------------------------------------------------------
(* strands_runner.py: BrickwatchStrandRunner._run_via_strands *)

Blueprint(r) == WorkflowBlueprint(action[r])

StepName(r) == Blueprint(r)[stepIdx[r]]

\* Mutation of StepFailed: the runner never looks at the step's status.
StepFailedIgnored(step_result) == FALSE

\* strands_runner.py:120, step_result.get("status") == "failed"
StepFailed(step_result) == Get(step_result, "status", None) = "failed"

(* Lines 113-128: store the result, merge it into the context, then either  *)
(* break with status failed, go on to the next step, or (for-else) finish    *)
(* with status completed.  ctx is the context as the step left it.          *)
AfterStep(r, ctx, step_result) ==
    LET step_name == StepName(r)
        results == Update(workflow_results[r], step_name :> step_result)
        failed == StepFailed(step_result)
        last == stepIdx[r] = Len(Blueprint(r))
    IN /\ step_context' = [step_context EXCEPT ![r] = Update(ctx, step_result)]
       /\ workflow_results' = [workflow_results EXCEPT ![r] =
            IF failed
            THEN Update(results, [status |-> "failed",
                                  message |-> [text |-> "Workflow failed at step:",
                                               arg |-> step_name]])
            ELSE IF last
            THEN Update(results, [status |-> "completed",
                                  message |-> [text |-> "Workflow completed successfully",
                                               arg |-> None]])
            ELSE results]
       /\ pc' = [pc EXCEPT ![r] = IF failed \/ last THEN "done" ELSE "loop"]
       /\ stepIdx' = [stepIdx EXCEPT ![r] = IF failed \/ last THEN @ ELSE @ + 1]
       /\ k' = [k EXCEPT ![r] = 0]
       /\ acc' = [acc EXCEPT ![r] = <<>>]
       /\ total_savings' = [total_savings EXCEPT ![r] = 0]

\* Mutation of UnknownStepResult: an unregistered step is passed over.
UnknownStepResultSkipped(step_name) ==
    [status |-> "skipped",
     error |-> [text |-> "Unknown workflow step:", arg |-> step_name],
     message |-> [text |-> "Workflow step not found", arg |-> step_name]]

\* strands_workflows.py:362-367, execute_workflow_step on an unregistered name
UnknownStepResult(step_name) ==
    [status |-> "failed",
     error |-> [text |-> "Unknown workflow step:", arg |-> step_name],
     message |-> [text |-> "Workflow step not found", arg |-> step_name]]

\* ValidateRecommendationsStep.execute, lines 38-44
ValidateEmptyResult ==
    [status |-> "success", validated_recommendations |-> <<>>,
     message |-> [text |-> "No recommendations to execute", arg |-> None],
     next_step |-> "apply_rightsizing"]

\* ApplyRightsizingStep.execute, lines 136-147
ApplyEmptyResult ==
    [status |-> "success", applied_changes |-> <<>>,
     summary |-> [instances_modified |-> 0, instances_skipped |-> 0,
                 total_savings |-> "$0/month"],
     message |-> [text |-> "No recommendations to apply", arg |-> None],
     next_step |-> "verify_optimization"]

\* VerifyOptimizationStep.execute, lines 262-272
VerifyEmptyResult ==
    [status |-> "success", verification_results |-> <<>>,
     summary |-> [successful_verifications |-> 0, failed_verifications |-> 0],
     message |-> [text |-> "No changes to verify", arg |-> None],
     workflow_complete |-> TRUE]

\* The list a registered step iterates over, read from the context.
StepInput(step_name, ctx) ==
    CASE step_name = "validate_recommendations" -> Get(ctx, "recommendations", <<>>)
      [] step_name = "apply_rightsizing" -> Get(ctx, "validated_recommendations", <<>>)
      [] step_name = "verify_optimization" -> Get(ctx, "applied_changes", <<>>)

StepEmptyResult(step_name) ==
    CASE step_name = "validate_recommendations" -> ValidateEmptyResult
      [] step_name = "apply_rightsizing" -> ApplyEmptyResult
      [] step_name = "verify_optimization" -> VerifyEmptyResult

\* The position at which a registered step's loop starts.
StepEntry(step_name) ==
    CASE step_name = "validate_recommendations" -> "validate"
      [] step_name = "apply_rightsizing" -> "stop_instances"
      [] step_name = "verify_optimization" -> "verify"

(* Lines 89-105: look the blueprint up, start with empty results and a copy *)
(* of the caller's context.                                                *)
RunViaStrands(r) ==
    /\ pc[r] = "pending"
    /\ UNCHANGED <<apiVars, toolVars>>
    /\ pc' = [pc EXCEPT ![r] = "loop"]
    /\ stepIdx' = [stepIdx EXCEPT ![r] = 1]
    /\ workflow_results' = [workflow_results EXCEPT ![r] = <<>>]
    /\ UNCHANGED <<action, k, step_context, acc, total_savings, executed, calls>>

(* Lines 106-111 and execute_workflow_step: the next step of the blueprint  *)
(* is executed.  An unregistered name returns a failed result at once; a    *)
(* registered step returns at once on an empty list and otherwise enters    *)
(* its loop.                                                               *)
ExecuteWorkflowStep(r) ==
    /\ pc[r] = "loop"
    /\ UNCHANGED <<apiVars, toolVars>>
    /\ executed' = [executed EXCEPT ![r] = Append(@, StepName(r))]
    /\ NoCall
    /\ UNCHANGED action
    /\ IF StepName(r) \notin WORKFLOW_STEPS
       THEN AfterStep(r, step_context[r], UnknownStepResult(StepName(r)))
       ELSE IF StepInput(StepName(r), step_context[r]) = <<>>
       THEN AfterStep(r, step_context[r], StepEmptyResult(StepName(r)))
       ELSE /\ pc' = [pc EXCEPT ![r] = StepEntry(StepName(r))]
            /\ k' = [k EXCEPT ![r] = 1]
            /\ acc' = [acc EXCEPT ![r] = <<>>]
            /\ total_savings' = [total_savings EXCEPT ![r] = 0]
            /\ UNCHANGED <<stepIdx, step_context, workflow_results>>

--------------------------------------------------------------------------
(* strands_workflows.py: ValidateRecommendationsStep.execute *)

\* Lines 49-51: each field is read under its snake_case or camelCase key.
RecInstanceId(rec) == Or(rec.instance_id, rec.instanceId)
RecCurrentType(rec) == Or(rec.current_instance_type, rec.currentType)
RecRecommendedType(rec) == Or(rec.recommended_instance_type, rec.recommendedType)

\* Line 53: all([instance_id, current_type, recommended_type])
HasRequiredFields(rec) ==
    /\ Truthy(RecInstanceId(rec))
    /\ Truthy(RecCurrentType(rec))
    /\ Truthy(RecRecommendedType(rec))

\* Mutation of FoundRunning: an instance found in any state is validated.
FoundInAnyState(o) == o.kind = "found"

\* Lines 63-73: the lookup found the instance, and found it running.
FoundRunning(o) == o.kind = "found" /\ o.state = "running"

\* Lines 75-79: the recommendation is rewritten with the type the lookup
\* reported when that differs from the submitted one.
WithActualType(rec, actual_type) ==
    IF actual_type # RecCurrentType(rec)
    THEN [rec EXCEPT !.current_instance_type = actual_type, !.currentType = actual_type]
    ELSE rec

\* Lines 82-89
ValidatedRec(rec, actual_type) ==
    [instance_id |-> RecInstanceId(rec),
     current_instance_type |-> actual_type,
     recommended_instance_type |-> RecRecommendedType(rec),
     estimated_savings |-> Or(rec.estimated_monthly_savings, "N/A"),
     reason |-> "Agent Analysis",
     original_recommendation |-> WithActualType(rec, actual_type)]

\* Lines 103-111
ValidateResult(recommendations, validated) ==
    [status |-> "success",
     validated_recommendations |-> validated,
     total_recommendations |-> Len(recommendations),
     valid_recommendations |-> Len(validated),
     skipped_recommendations |-> Len(recommendations) - Len(validated),
     message |-> [text |-> "Validated recommendations for execution", arg |-> Len(validated)],
     next_step |-> "apply_rightsizing"]

\* Lines 113-119: the outer except
ValidateFailedResult(err) ==
    [status |-> "failed", error |-> err,
     message |-> [text |-> "Failed to validate recommendations", arg |-> None]]

\* Lines 94-99 against 113-119: only ClientError is caught per
\* recommendation; any other exception of the lookup leaves the loop.
ValidateAborts(o) == o.kind = "error"

(* One iteration of the loop of lines 48-99, on recommendation k.          *)
ValidateRec(r) ==
    /\ pc[r] = "validate"
    /\ UNCHANGED <<apiVars, toolVars>>
    /\ k[r] <= Len(step_context[r].recommendations)
    /\ UNCHANGED <<action, executed>>
    /\ LET recs == step_context[r].recommendations
           rec == recs[k[r]]
       IN IF ~HasRequiredFields(rec)
          THEN /\ k' = [k EXCEPT ![r] = @ + 1]
               /\ NoCall
               /\ UNCHANGED <<pc, stepIdx, step_context, acc, total_savings, workflow_results>>
          ELSE \E o \in DescribeSeen :
                 /\ Issue(r, "describe_instances", RecInstanceId(rec), o.kind, o, None)
                 /\ IF ValidateAborts(o)
                    THEN AfterStep(r, step_context[r], ValidateFailedResult(o.kind))
                    ELSE /\ k' = [k EXCEPT ![r] = @ + 1]
                         /\ UNCHANGED <<pc, stepIdx, total_savings, workflow_results>>
                         /\ IF FoundRunning(o)
                            THEN /\ acc' = [acc EXCEPT ![r] = Append(@, ValidatedRec(rec, o.type))]
                                 /\ step_context' = [step_context EXCEPT ![r].recommendations[k[r]] =
                                                        WithActualType(rec, o.type)]
                            ELSE UNCHANGED <<acc, step_context>>

(* Lines 101-111: the loop is over, the step returns.                      *)
ValidateReturn(r) ==
    /\ pc[r] = "validate"
    /\ UNCHANGED <<apiVars, toolVars>>
    /\ k[r] > Len(step_context[r].recommendations)
    /\ NoCall
    /\ UNCHANGED <<action, executed>>
    /\ AfterStep(r, step_context[r], ValidateResult(step_context[r].recommendations, acc[r]))

--------------------------------------------------------------------------
(* strands_workflows.py: ApplyRightsizingStep.execute *)

\* Mutation of ApplySequence: the type is modified right after the stop call.
ApplySequenceModifyFirst ==
    <<"stop_instances", "modify_instance_attribute", "wait_stopped",
      "start_instances", "wait_running">>

\* Lines 164-183: the calls made for one instance, in order.
ApplySequence ==
    <<"stop_instances", "wait_stopped", "modify_instance_attribute",
      "start_instances", "wait_running">>

IsWait(op) == op \in {"wait_stopped", "wait_running"}

OutcomesOf(op) ==
    IF ~ec2_faults THEN {"ok"}
    ELSE IF IsWait(op) THEN WaitOutcomes ELSE CallOutcomes

ConfigOf(op) == IF IsWait(op) THEN WaiterConfig ELSE None

IndexOf(op) == CHOOSE i \in 1..Len(ApplySequence) : ApplySequence[i] = op

\* Lines 186-191: the savings string as a number of cents; 0 when it is not
\* a string holding '$' or does not parse.
SavingsValue(estimated_savings) ==
    CASE estimated_savings = "$50.00" -> 5000
      [] estimated_savings = "$5.00" -> 500
      [] OTHER -> 0

\* Lines 195-204 and 210-220
AppliedChange(rec, status, err) ==
    [instance_id |-> rec.instance_id,
     action |-> "rightsizing",
     from |-> rec.current_instance_type,
     to |-> rec.recommended_instance_type,
     estimated_savings |-> rec.estimated_savings,
     status |-> status,
     error |-> err,
     reason |-> rec.reason]

SelectStatus(changes, status) == SelectSeq(changes, LAMBDA c : c.status = status)

\* Mutation of ApplyResult: the step reports success whatever the records say.
ApplyResultAlwaysSuccess(applied_changes, total) ==
    [status |-> "success",
     applied_changes |-> applied_changes,
     summary |-> [instances_modified |-> Len(SelectStatus(applied_changes, "success")),
                  instances_failed |-> Len(SelectStatus(applied_changes, "failed")),
                  total_savings |-> total],
     message |-> [text |-> "Successfully applied rightsizing changes",
                  arg |-> Len(SelectStatus(applied_changes, "success"))],
     next_step |-> "verify_optimization"]

\* Lines 222-237
ApplyResult(applied_changes, total) ==
    LET successful_changes == SelectStatus(applied_changes, "success")
        failed_changes == SelectStatus(applied_changes, "failed")
    IN [status |-> IF successful_changes # <<>> THEN "success" ELSE "failed",
        applied_changes |-> applied_changes,
        summary |-> [instances_modified |-> Len(successful_changes),
                     instances_failed |-> Len(failed_changes),
                     total_savings |-> total],
        message |-> [text |-> "Successfully applied rightsizing changes",
                     arg |-> Len(successful_changes)],
        next_step |-> "verify_optimization"]

(* Mutation of ApplyCallFailed: the error leaves the loop and the step      *)
(* returns through its outer except.                                       *)
ApplyCallFailedAborts(r, rec, err) ==
    AfterStep(r, step_context[r],
              [status |-> "failed", error |-> err,
               message |-> [text |-> "Failed to apply rightsizing changes", arg |-> None]])

(* Mutation of ApplyCallFailed: compensation.  When the stopped-wait or the *)
(* modify fails, the instance is started again before its failed record    *)
(* closes the iteration.                                                   *)
ApplyCallFailedRestarts(r, rec, err) ==
    IF pc[r] \in {"wait_stopped", "modify_instance_attribute"}
    THEN /\ pc' = [pc EXCEPT ![r] = "start_instances"]
         /\ UNCHANGED <<k, acc, stepIdx, step_context, total_savings, workflow_results>>
    ELSE /\ acc' = [acc EXCEPT ![r] = Append(@, AppliedChange(rec, "failed", err))]
         /\ k' = [k EXCEPT ![r] = @ + 1]
         /\ pc' = [pc EXCEPT ![r] = ApplySequence[1]]
         /\ UNCHANGED <<stepIdx, step_context, total_savings, workflow_results>>

(* Lines 208-220, the except of the per-instance try: the instance gets a  *)
(* failed record and the loop goes on with the next recommendation.        *)
ApplyCallFailed(r, rec, err) ==
    /\ acc' = [acc EXCEPT ![r] = Append(@, AppliedChange(rec, "failed", err))]
    /\ k' = [k EXCEPT ![r] = @ + 1]
    /\ pc' = [pc EXCEPT ![r] = ApplySequence[1]]
    /\ UNCHANGED <<stepIdx, step_context, total_savings, workflow_results>>

(* Mutation of ApplyCallReturned: the loop moves to the next instance      *)
(* after every call instead of after the last one.                         *)
ApplyCallReturnedNextInstance(r, rec, op) ==
    IF IndexOf(op) < Len(ApplySequence)
    THEN /\ pc' = [pc EXCEPT ![r] = ApplySequence[IndexOf(op) + 1]]
         /\ k' = [k EXCEPT ![r] = @ + 1]
         /\ UNCHANGED <<stepIdx, step_context, acc, total_savings, workflow_results>>
    ELSE /\ acc' = [acc EXCEPT ![r] = Append(@, AppliedChange(rec, "success", None))]
         /\ total_savings' = [total_savings EXCEPT ![r] = @ + SavingsValue(rec.estimated_savings)]
         /\ k' = [k EXCEPT ![r] = @ + 1]
         /\ pc' = [pc EXCEPT ![r] = ApplySequence[1]]
         /\ UNCHANGED <<stepIdx, step_context, workflow_results>>

(* A call of lines 164-183 returned: the next call of the sequence follows, *)
(* and after the last one the success record of lines 186-204.             *)
ApplyCallReturned(r, rec, op) ==
    IF IndexOf(op) < Len(ApplySequence)
    THEN /\ pc' = [pc EXCEPT ![r] = ApplySequence[IndexOf(op) + 1]]
         /\ UNCHANGED <<k, stepIdx, step_context, acc, total_savings, workflow_results>>
    ELSE /\ acc' = [acc EXCEPT ![r] = Append(@, AppliedChange(rec, "success", None))]
         /\ total_savings' = [total_savings EXCEPT ![r] = @ + SavingsValue(rec.estimated_savings)]
         /\ k' = [k EXCEPT ![r] = @ + 1]
         /\ pc' = [pc EXCEPT ![r] = ApplySequence[1]]
         /\ UNCHANGED <<stepIdx, step_context, workflow_results>>

(* One external call of the loop of lines 152-220, for recommendation k.    *)
ApplyCall(r) ==
    /\ pc[r] \in {ApplySequence[i] : i \in 1..Len(ApplySequence)}
    /\ UNCHANGED <<apiVars, toolVars>>
    /\ k[r] <= Len(step_context[r].validated_recommendations)
    /\ UNCHANGED <<action, executed>>
    /\ LET rec == step_context[r].validated_recommendations[k[r]]
           op == pc[r]
       IN \E o \in OutcomesOf(op) :
            /\ Issue(r, op, rec.instance_id, o, NoOutcome, ConfigOf(op))
            /\ IF o = "ok"
               THEN ApplyCallReturned(r, rec, op)
               ELSE ApplyCallFailed(r, rec, o)

(* Lines 222-237: the loop is over, the step returns.                      *)
ApplyReturn(r) ==
    /\ pc[r] = ApplySequence[1]
    /\ UNCHANGED <<apiVars, toolVars>>
    /\ k[r] > Len(step_context[r].validated_recommendations)
    /\ NoCall
    /\ UNCHANGED <<action, executed>>
    /\ AfterStep(r, step_context[r], ApplyResult(acc[r], total_savings[r]))

--------------------------------------------------------------------------
(* strands_workflows.py: VerifyOptimizationStep.execute *)

\* Mutation of VerificationStatus: the instance state is not compared.
VerificationStatusTypeOnly(change, o) ==
    IF change.status = "failed" THEN "skipped"
    ELSE IF o.kind # "found" THEN "error"
    ELSE IF o.type = change.to THEN "success"
    ELSE "failed"

\* Lines 279-325: the verification status of one applied change; o is the
\* outcome of the re-read, which is not made for a failed change.
VerificationStatus(change, o) ==
    IF change.status = "failed" THEN "skipped"
    ELSE IF o.kind # "found" THEN "error"
    ELSE IF o.state = "running" /\ o.type = change.to THEN "success"
    ELSE "failed"

\* Line 279: the re-read is skipped for a change that failed to apply.
VerifyRereads(change) == change.status # "failed"

VerificationRecord(change, o, status) ==
    [instance_id |-> change.instance_id,
     verification_status |-> status,
     current_type |-> IF status \in {"success", "failed"} THEN o.type ELSE None,
     expected_type |-> IF status \in {"success", "failed"} THEN change.to ELSE None,
     instance_state |-> IF status \in {"success", "failed"} THEN o.state ELSE None,
     error |-> IF status = "skipped" THEN change.error
               ELSE IF status = "error" THEN o.kind ELSE None]

\* Lines 327-341
VerifyResult(verification_results) ==
    LET successful == SelectSeq(verification_results,
                                LAMBDA v : v.verification_status = "success")
        failed == SelectSeq(verification_results,
                            LAMBDA v : v.verification_status \in {"failed", "error"})
    IN [status |-> IF successful # <<>> THEN "success" ELSE "failed",
        verification_results |-> verification_results,
        summary |-> [successful_verifications |-> Len(successful),
                     failed_verifications |-> Len(failed)],
        message |-> [text |-> "Verified successful optimizations", arg |-> Len(successful)],
        workflow_complete |-> TRUE]

(* One iteration of the loop of lines 276-325, on applied change k.        *)
VerifyChange(r) ==
    /\ pc[r] = "verify"
    /\ UNCHANGED <<apiVars, toolVars>>
    /\ k[r] <= Len(step_context[r].applied_changes)
    /\ k' = [k EXCEPT ![r] = @ + 1]
    /\ UNCHANGED <<action, executed, pc, stepIdx, step_context, total_savings, workflow_results>>
    /\ LET change == step_context[r].applied_changes[k[r]]
       IN IF ~VerifyRereads(change)
          THEN /\ NoCall
               /\ acc' = [acc EXCEPT ![r] =
                    Append(@, VerificationRecord(change, NoOutcome,
                                                 VerificationStatus(change, NoOutcome)))]
          ELSE \E o \in DescribeSeen :
                 /\ Issue(r, "describe_instances", change.instance_id, o.kind, o, None)
                 /\ acc' = [acc EXCEPT ![r] =
                      Append(@, VerificationRecord(change, o, VerificationStatus(change, o)))]

(* Lines 327-341: the loop is over, the step returns.                      *)
VerifyReturn(r) ==
    /\ pc[r] = "verify"
    /\ UNCHANGED <<apiVars, toolVars>>
    /\ k[r] > Len(step_context[r].applied_changes)
    /\ NoCall
    /\ UNCHANGED <<action, executed>>
    /\ AfterStep(r, step_context[r], VerifyResult(acc[r]))

--------------------------------------------------------------------------
(* app.py: POST /v1/automation *)

\* Values of the Authorization header; "" is what headers.get returns when
\* the request has none.
AuthHeaders == {"", "Basic abc", "Bearer ", "Bearer tok"}

\* Lines 211-214: the text after "Bearer ", None for any other header.
BearerToken(auth_header) ==
    CASE auth_header = "Bearer tok" -> "tok"
      [] auth_header = "Bearer " -> ""
      [] OTHER -> None

\* A recommendation whose savings string is not a number.
RecBadSavings == Rec("EC2", "i-1", None, "r5.large", None, "t3.medium", None, "N/A")

ApiRecLists == {<<>>, <<RecEc2>>, <<RecBadSavings>>}

(* An event given to the Lambda handler.  An API Gateway event has no       *)
(* _async_workflow key, so that event.get returns a falsy value; body_ok    *)
(* says whether request.json() parses the body to a dict.  execution_id 0   *)
(* stands for an absent key; the clock starts after 0.                      *)
HttpEvent(body_ok, authorization, recommendations) ==
    [_async_workflow |-> FALSE, body_ok |-> body_ok, authorization |-> authorization,
     recommendations |-> recommendations, bearer_token |-> None, execution_id |-> 0]

HttpEvents ==
    {HttpEvent(FALSE, "", <<>>)}
    \cup {HttpEvent(TRUE, h, recs) : h \in AuthHeaders, recs \in ApiRecLists}

\* Mutation of AsyncPayload: the payload is queued without the token.
AsyncPayloadNoToken(recommendations, bearer_token, execution_id) ==
    [_async_workflow |-> TRUE, body_ok |-> TRUE, authorization |-> "",
     recommendations |-> recommendations, bearer_token |-> None,
     execution_id |-> execution_id]

\* Lines 284-289, async_payload
AsyncPayload(recommendations, bearer_token, execution_id) ==
    [_async_workflow |-> TRUE, body_ok |-> TRUE, authorization |-> "",
     recommendations |-> recommendations, bearer_token |-> bearer_token,
     execution_id |-> execution_id]

\* Lines 269-272: float() of the savings string without '$' and ','; the
\* string is '$0' when the key is absent.
SavingsParses(rec) ==
    LET text == IF rec.estimated_monthly_savings = None THEN "$0"
                ELSE rec.estimated_monthly_savings
    IN text \in {"$0", "$5.00", "$50.00"}

\* Lines 226-273: the execution plan is built without an exception.
PlanBuilds(recommendations) ==
    \A i \in 1..Len(recommendations) : SavingsParses(recommendations[i])

\* Line 206: workflow_endpoint and AGENTCORE_AVAILABLE
TargetConfigured == Truthy(workflow_endpoint) /\ AGENTCORE_AVAILABLE

\* Mutation of ReachesInvoke: the token is not required for the dispatch.
ReachesInvokeWithoutToken(event) ==
    /\ event.body_ok
    /\ TargetConfigured
    /\ PlanBuilds(event.recommendations)

\* Mutation of ReachesInvoke: nothing is dispatched while an execution is
\* in flight.
ReachesInvokeWhenIdle(event) ==
    /\ event.body_ok
    /\ TargetConfigured
    /\ Truthy(BearerToken(event.authorization))
    /\ PlanBuilds(event.recommendations)
    /\ \A p \in RunIds : ~(async_event[p] # <<>> /\ async_result[p] = <<>>)

\* Lines 189-282: the handler gets as far as lambda_client.invoke.
ReachesInvoke(event) ==
    /\ event.body_ok
    /\ TargetConfigured
    /\ Truthy(BearerToken(event.authorization))
    /\ PlanBuilds(event.recommendations)

(* The status code of the response, in the order of the code: the body      *)
(* (189, 321-323), the target (206, 318-320), the token (216-218), the plan *)
(* and the invoke (220-316).                                                *)
AutomationStatus(event, invoke_ok) ==
    IF ~event.body_ok THEN 500
    ELSE IF ~TargetConfigured THEN 503
    ELSE IF ~Truthy(BearerToken(event.authorization)) THEN 401
    ELSE IF ~PlanBuilds(event.recommendations) THEN 500
    ELSE IF ~invoke_ok THEN 500
    ELSE 202

\* Lines 303-313
AcceptedResponse(execution_id, recommendations) ==
    [status_code |-> 202, status |-> "accepted", execution_id |-> execution_id,
     recommendations_processed |-> Len(recommendations), result_status |-> "in_progress"]

\* _error_response
ErrorResponse(status_code) ==
    [status_code |-> status_code, status |-> "error", execution_id |-> 0,
     recommendations_processed |-> 0, result_status |-> None]

(* The whole handler of POST /v1/automation on request q.  invoke_ok is the *)
(* outcome of lambda_client.invoke(InvocationType='Event'): the payload is  *)
(* queued and the call returns, or the call raises and nothing is queued.   *)
(* The execution id is the clock reading of line 224; a reading is a        *)
(* millisecond later than the one before.                                   *)
Automation(q, event) ==
    \E invoke_ok \in BOOLEAN :
      LET status_code == AutomationStatus(event, invoke_ok)
          bearer_token == BearerToken(event.authorization)
          execution_id == now + 1
      IN /\ requests' = [requests EXCEPT ![q] = <<event>>]
         /\ now' = IF ReachesInvoke(event) THEN execution_id ELSE now
         /\ dispatched' = [dispatched EXCEPT ![q] =
              IF ReachesInvoke(event) /\ invoke_ok
              THEN <<AsyncPayload(event.recommendations, bearer_token, execution_id)>>
              ELSE <<>>]
         /\ responses' = [responses EXCEPT ![q] =
              IF status_code = 202
              THEN <<AcceptedResponse(execution_id, event.recommendations)>>
              ELSE <<ErrorResponse(status_code)>>]
         /\ UNCHANGED <<ec2_faults, AGENTCORE_AVAILABLE, workflow_endpoint, traffic,
                        async_event, async_result>>
         /\ UNCHANGED <<runVars, toolVars>>

--------------------------------------------------------------------------
(* app.py: handler, the Lambda entry point *)

\* Line 351: event.get("_async_workflow")
IsAsyncWorkflow(event) == event._async_workflow

\* Mutation of AsyncResult: an error of the invocation leaves the handler.
AsyncResultPropagates(invoke_ok, execution_id) ==
    IF invoke_ok
    THEN [statusCode |-> 200, status |-> "completed", execution_id |-> execution_id,
          raised |-> FALSE]
    ELSE [statusCode |-> 0, status |-> None, execution_id |-> execution_id,
          raised |-> TRUE]

\* Lines 376-395: what handler returns for a workflow execution
AsyncResult(invoke_ok, execution_id) ==
    IF invoke_ok
    THEN [statusCode |-> 200, status |-> "completed", execution_id |-> execution_id,
          raised |-> FALSE]
    ELSE [statusCode |-> 500, status |-> "failed", execution_id |-> execution_id,
          raised |-> FALSE]

\* The execution of request q is inside workflow_gateway.invoke.
InFlight(q) == async_event[q] # <<>> /\ async_result[q] = <<>>

(* Lines 351-372: the event carries the marker; its fields are read and the *)
(* workflow agent is invoked.  Without the agentcore client the names are   *)
(* undefined and the except of line 386 answers at once.                    *)
AsyncWorkflowBegin(q, event) ==
    /\ async_event' = [async_event EXCEPT ![q] = <<event>>]
    /\ async_result' = [async_result EXCEPT ![q] =
         IF AGENTCORE_AVAILABLE THEN <<>> ELSE <<AsyncResult(FALSE, event.execution_id)>>]
    /\ UNCHANGED <<ec2_faults, AGENTCORE_AVAILABLE, workflow_endpoint, traffic, now,
                   requests, responses, dispatched>>
    /\ UNCHANGED <<runVars, toolVars>>

\* The events the Lambda service may deliver for request q: the request
\* itself, once the requests before it have arrived, or the payload queued
\* by its handler.
Incoming(q) ==
    (IF requests[q] = <<>> /\ async_event[q] = <<>>
        /\ \A p \in RunIds : p < q => requests[p] # <<>>
     THEN traffic ELSE {})
    \cup (IF dispatched[q] # <<>> /\ async_event[q] = <<>>
          THEN {dispatched[q][1]} ELSE {})

(* handler(event, context): a workflow execution when the event carries     *)
(* the marker, the HTTP application otherwise.                              *)
Handler(q) ==
    \E event \in Incoming(q) :
      IF IsAsyncWorkflow(event)
      THEN AsyncWorkflowBegin(q, event)
      ELSE Automation(q, event)

(* Lines 372-395: workflow_gateway.invoke returns or raises, and handler    *)
(* returns its result.  The invocation is synchronous: it ends when the     *)
(* agent's work is over, or without the agent having worked at all.         *)
GatewayReturns(q) ==
    /\ InFlight(q)
    /\ pc[q] \in {"idle", "done"}
    /\ \E invoke_ok \in BOOLEAN :
         async_result' = [async_result EXCEPT ![q] =
            <<AsyncResult(invoke_ok, async_event[q][1].execution_id)>>]
    /\ UNCHANGED <<ec2_faults, AGENTCORE_AVAILABLE, workflow_endpoint, traffic, now,
                   requests, responses, dispatched, async_event>>
    /\ UNCHANGED <<runVars, toolVars>>

(* The workflow agent invoked for request q performs the per-resource       *)
(* workflow on the recommendations it was given.                            *)
AgentRuns(q) ==
    /\ InFlight(q)
    /\ pc[q] = "idle"
    /\ action' = [action EXCEPT ![q] = "optimize_existing_instances"]
    /\ step_context' = [step_context EXCEPT ![q] =
         [recommendations |-> async_event[q][1].recommendations]]
    /\ pc' = [pc EXCEPT ![q] = "pending"]
    /\ UNCHANGED <<stepIdx, k, acc, total_savings, executed, workflow_results,
                   calls>>
    /\ UNCHANGED <<apiVars, toolVars>>

--------------------------------------------------------------------------
(* company_policies.py: the cost policies and the two type helpers *)

\* COMPANY_COST_POLICIES, lines 8-142: per service, the lists the helpers
\* and the collector read, and the limits of the services without lists.
COMPANY_COST_POLICIES ==
    [metadata |-> [enforcement_level |-> "strict"],
     ec2 |-> [disallowed_instance_types |->
                  <<"r5.*", "r5a.*", "r5b.*", "r5n.*", "r6i.*", "r6a.*",
                    "m5.*", "m5a.*", "m5n.*", "m6i.*", "c5.*", "c5a.*",
                    "c5n.*", "c6i.*", "t2.*", "t3.large", "t3.xlarge",
                    "t3.2xlarge">>,
              recommended_types |-> <<"t3.micro", "t3.small", "t3.medium">>],
     rds |-> [disallowed_instance_classes |->
                  <<"db.r5.*", "db.r5b.*", "db.r6i.*", "db.m5.*", "db.m6i.*">>,
              recommended_classes |->
                  <<"db.t3.micro", "db.t3.small", "db.t3.medium">>],
     lambda |-> [reserved_concurrency |-> [max |-> 100]],
     ebs |-> [disallowed_volume_types |-> <<"io1", "io2">>,
              recommended_types |-> <<"gp3">>],
     s3 |-> [lifecycle_policy_required |-> TRUE],
     elasticache |-> [disallowed_node_types |->
                          <<"cache.r5.*", "cache.r6g.*", "cache.m5.*",
                            "cache.m6g.*">>,
                      recommended_types |->
                          <<"cache.t3.micro", "cache.t3.small",
                            "cache.t3.medium">>],
     general |-> [tagging_required |-> TRUE]]

\* The empty dict.
EmptyDict == <<>>

\* get_policy, lines 145-147.
get_policy(service) == Get(COMPANY_COST_POLICIES, service, EmptyDict)

\* The patterns of the policies and the type names the model passes to the
\* helpers: permitted and forbidden types of each service, and names that
\* differ from a forbidden one by case, by the character in the place of
\* the dot, by a prefix, by a suffix and by a trailing newline.
PolicyStrings ==
    {"r5.*", "r5a.*", "r5b.*", "r5n.*", "r6i.*", "r6a.*", "m5.*", "m5a.*",
     "m5n.*", "m6i.*", "c5.*", "c5a.*", "c5n.*", "c6i.*", "t2.*",
     "t3.large", "t3.xlarge", "t3.2xlarge", "db.r5.*", "db.r5b.*",
     "db.r6i.*", "db.m5.*", "db.m6i.*", "io1", "io2", "cache.r5.*",
     "cache.r6g.*", "cache.m5.*", "cache.m6g.*", "t3.micro", "t3.small",
     "t3.medium", "r5.large", "m5.large", "r5xlarge", "R5.large",
     "t3.largex", "xt3.large", "t3.large\n", "db.r5.large", "db.t3.micro",
     "gp3", "cache.r5.large", "cache.t3.small", "db.t3.small",
     "db.t3.medium", "cache.t3.micro", "cache.t3.medium"}

Chars(s) ==
    CASE s = "r5.*" -> <<"r", "5", ".", "*">>
      [] s = "r5a.*" -> <<"r", "5", "a", ".", "*">>
      [] s = "r5b.*" -> <<"r", "5", "b", ".", "*">>
      [] s = "r5n.*" -> <<"r", "5", "n", ".", "*">>
      [] s = "r6i.*" -> <<"r", "6", "i", ".", "*">>
      [] s = "r6a.*" -> <<"r", "6", "a", ".", "*">>
      [] s = "m5.*" -> <<"m", "5", ".", "*">>
      [] s = "m5a.*" -> <<"m", "5", "a", ".", "*">>
      [] s = "m5n.*" -> <<"m", "5", "n", ".", "*">>
      [] s = "m6i.*" -> <<"m", "6", "i", ".", "*">>
      [] s = "c5.*" -> <<"c", "5", ".", "*">>
      [] s = "c5a.*" -> <<"c", "5", "a", ".", "*">>
      [] s = "c5n.*" -> <<"c", "5", "n", ".", "*">>
      [] s = "c6i.*" -> <<"c", "6", "i", ".", "*">>
      [] s = "t2.*" -> <<"t", "2", ".", "*">>
      [] s = "t3.large" -> <<"t", "3", ".", "l", "a", "r", "g", "e">>
      [] s = "t3.xlarge" -> <<"t", "3", ".", "x", "l", "a", "r", "g", "e">>
      [] s = "t3.2xlarge" -> <<"t", "3", ".", "2", "x", "l", "a", "r", "g", "e">>
      [] s = "db.r5.*" -> <<"d", "b", ".", "r", "5", ".", "*">>
      [] s = "db.r5b.*" -> <<"d", "b", ".", "r", "5", "b", ".", "*">>
      [] s = "db.r6i.*" -> <<"d", "b", ".", "r", "6", "i", ".", "*">>
      [] s = "db.m5.*" -> <<"d", "b", ".", "m", "5", ".", "*">>
      [] s = "db.m6i.*" -> <<"d", "b", ".", "m", "6", "i", ".", "*">>
      [] s = "io1" -> <<"i", "o", "1">>
      [] s = "io2" -> <<"i", "o", "2">>
      [] s = "cache.r5.*" -> <<"c", "a", "c", "h", "e", ".", "r", "5", ".", "*">>
      [] s = "cache.r6g.*" -> <<"c", "a", "c", "h", "e", ".", "r", "6", "g", ".", "*">>
      [] s = "cache.m5.*" -> <<"c", "a", "c", "h", "e", ".", "m", "5", ".", "*">>
      [] s = "cache.m6g.*" -> <<"c", "a", "c", "h", "e", ".", "m", "6", "g", ".", "*">>
      [] s = "t3.micro" -> <<"t", "3", ".", "m", "i", "c", "r", "o">>
      [] s = "t3.small" -> <<"t", "3", ".", "s", "m", "a", "l", "l">>
      [] s = "t3.medium" -> <<"t", "3", ".", "m", "e", "d", "i", "u", "m">>
      [] s = "r5.large" -> <<"r", "5", ".", "l", "a", "r", "g", "e">>
      [] s = "m5.large" -> <<"m", "5", ".", "l", "a", "r", "g", "e">>
      [] s = "r5xlarge" -> <<"r", "5", "x", "l", "a", "r", "g", "e">>
      [] s = "R5.large" -> <<"R", "5", ".", "l", "a", "r", "g", "e">>
      [] s = "t3.largex" -> <<"t", "3", ".", "l", "a", "r", "g", "e", "x">>
      [] s = "xt3.large" -> <<"x", "t", "3", ".", "l", "a", "r", "g", "e">>
      [] s = "t3.large\n" -> <<"t", "3", ".", "l", "a", "r", "g", "e", "\n">>
      [] s = "db.r5.large" -> <<"d", "b", ".", "r", "5", ".", "l", "a", "r", "g", "e">>
      [] s = "db.t3.micro" -> <<"d", "b", ".", "t", "3", ".", "m", "i", "c", "r", "o">>
      [] s = "gp3" -> <<"g", "p", "3">>
      [] s = "cache.r5.large" -> <<"c", "a", "c", "h", "e", ".", "r", "5", ".", "l", "a", "r", "g", "e">>
      [] s = "cache.t3.small" -> <<"c", "a", "c", "h", "e", ".", "t", "3", ".", "s", "m", "a", "l", "l">>
      [] s = "db.t3.small" -> <<"d", "b", ".", "t", "3", ".", "s", "m", "a", "l", "l">>
      [] s = "db.t3.medium" -> <<"d", "b", ".", "t", "3", ".", "m", "e", "d", "i", "u", "m">>
      [] s = "cache.t3.micro" -> <<"c", "a", "c", "h", "e", ".", "t", "3", ".", "m", "i", "c", "r", "o">>
      [] s = "cache.t3.medium" -> <<"c", "a", "c", "h", "e", ".", "t", "3", ".", "m", "e", "d", "i", "u", "m">>

\* str.replace(old, new) on a string of characters, for a one-character old.
RECURSIVE Replace(_, _, _)
Replace(s, old, new) ==
    IF s = <<>> THEN <<>>
    ELSE (IF Head(s) = old THEN new ELSE <<Head(s)>>) \o Replace(Tail(s), old, new)

\* Line 167: the pattern with "." replaced by "\." and then "*" by ".*".
PatternRegex(pattern) ==
    Replace(Replace(Chars(pattern), ".", <<"\\", ".">>), "*", <<".", "*">>)

\* Line 168: re.match("^" + regex + "$", s) for the expressions PatternRegex builds:
\* an escaped character matches itself, ".*" matches any run of characters
\* other than newline, another character matches itself, and "$" matches at
\* the end of s or before a newline that ends s.
RECURSIVE ReMatch(_, _)
ReMatch(regex, s) ==
    IF regex = <<>> THEN s = <<>> \/ s = <<"\n">>
    ELSE IF Head(regex) = "\\"
    THEN /\ s # <<>>
         /\ Head(s) = regex[2]
         /\ ReMatch(SubSeq(regex, 3, Len(regex)), Tail(s))
    ELSE IF Head(regex) = "." /\ Len(regex) >= 2 /\ regex[2] = "*"
    THEN \E n \in 0..Len(s) :
            /\ \A i \in 1..n : s[i] # "\n"
            /\ ReMatch(SubSeq(regex, 3, Len(regex)), SubSeq(s, n + 1, Len(s)))
    ELSE /\ s # <<>>
         /\ Head(s) = Head(regex)
         /\ ReMatch(Tail(regex), Tail(s))

\* is_instance_type_allowed, lines 155-171.
is_instance_type_allowed(instance_type, service) ==
    LET policy == get_policy(service)
        disallowed == Get(policy, "disallowed_instance_types", <<>>)
    IN IF DOMAIN policy = {} THEN TRUE
       ELSE ~ \E i \in 1..Len(disallowed) :
                ReMatch(PatternRegex(disallowed[i]), Chars(instance_type))

\* get_recommended_type, lines 174-187.
get_recommended_type(current_type, service) ==
    LET policy == get_policy(service)
        recommended == Get(policy, "recommended_types", <<>>)
    IN IF DOMAIN policy = {} THEN current_type
       ELSE IF recommended # <<>>
       THEN IF \E i \in 1..Len(recommended) : recommended[i] = "t3.medium"
            THEN "t3.medium"
            ELSE recommended[1]
       ELSE current_type

PolicyValues ==
    {"t3.micro", "t3.medium", "t3.large", "r5.large", "m5.large", "r5xlarge",
     "R5.large", "t3.largex", "xt3.large", "t3.large\n", "db.r5.large",
     "db.t3.micro", "io1", "gp3", "cache.r5.large", "cache.t3.small"}

\* The services of the policies, and one without a policy.
PolicyServices == (DOMAIN COMPANY_COST_POLICIES) \cup {"dynamodb"}

\* A caller asks whether pol_in's type is allowed for pol_in's service.
IsInstanceTypeAllowed ==
    /\ pol_in # <<>>
    /\ pol_allowed = <<>>
    /\ pol_allowed' =
           <<is_instance_type_allowed(pol_in[1].instance_type, pol_in[1].service)>>
    /\ UNCHANGED <<pol_in, pol_recommended>>
    /\ UNCHANGED exceptPolicy

\* A caller asks for the replacement of pol_in's type for pol_in's service.
GetRecommendedType ==
    /\ pol_in # <<>>
    /\ pol_recommended = <<>>
    /\ pol_recommended' =
           <<get_recommended_type(pol_in[1].instance_type, pol_in[1].service)>>
    /\ UNCHANGED <<pol_in, pol_allowed>>
    /\ UNCHANGED exceptPolicy

NoPolicy ==
    /\ pol_in = <<>>
    /\ pol_allowed = <<>>
    /\ pol_recommended = <<>>

--------------------------------------------------------------------------
(* agentcore runtime app.py: get_rightsizing_recommendations *)

\* What an external call gives back: it raised, or it returned a value.
Raised == [raised |-> TRUE]

Returned(value) == [raised |-> FALSE, value |-> value]

\* The running instances describe_instances can list: one of a type the
\* policy forbids and one of a type it permits.
InstanceR5 == [InstanceId |-> "i-1", InstanceType |-> "r5.large"]

InstanceT3 == [InstanceId |-> "i-2", InstanceType |-> "t3.micro"]

DescribeInstancesResponses ==
    {Raised} \cup
    {Returned(l) : l \in {<<>>, <<InstanceR5>>, <<InstanceT3>>,
                          <<InstanceR5, InstanceT3>>}}

\* Rows of Compute Optimizer: for the instance the policy forbids, for the
\* one it permits (the option is a forbidden type), and one without options.
OptimizerRow(arn, current, options) ==
    [instanceArn |-> arn, currentInstanceType |-> current,
     recommendationOptions |-> options]

\* An option of Compute Optimizer; the value of its savings opportunity is
\* a float, here in thousandths of a dollar.
Option(instanceType, value) ==
    [instanceType |-> instanceType,
     savingsOpportunity |-> [estimatedMonthlySavings |-> [value |-> value]]]

RowR5 ==
    OptimizerRow("arn:aws:ec2:instance/i-1", "r5.large",
                 <<Option("t3.small", 10004)>>)

RowT3 ==
    OptimizerRow("arn:aws:ec2:instance/i-2", "t3.micro",
                 <<Option("m5.large", 20004)>>)

RowNoOptions == OptimizerRow("arn:aws:ec2:instance/i-3", "t3.small", <<>>)

OptimizerResponses ==
    {Raised} \cup
    {Returned(l) : l \in {<<>>, <<RowR5, RowT3>>, <<RowT3, RowNoOptions>>}}

\* Line 809: instance_arn.split('/')[-1], 'N/A' for an empty ARN.
ArnInstanceId(instance_arn) ==
    CASE instance_arn = "arn:aws:ec2:instance/i-1" -> "i-1"
      [] instance_arn = "arn:aws:ec2:instance/i-2" -> "i-2"
      [] instance_arn = "arn:aws:ec2:instance/i-3" -> "i-3"
      [] OTHER -> "N/A"

\* round(amount, 2): thousandths to the nearest hundredth.  The model uses
\* no amount that lies half way.
Round2(amount) ==
    IF amount >= 0 THEN (amount + 5) \div 10 ELSE -((5 - amount) \div 10)

\* f"${amount:.2f}": the amount, in thousandths, as the hundredths the text
\* shows.
Dollars(amount) == Round2(amount)

\* float(text.replace("$", "").replace(",", "")): the hundredths of the text
\* as an amount in thousandths.
ParseDollars(text) == text * 10

StartsWith(s, prefix) ==
    Len(s) >= Len(prefix) /\ SubSeq(s, 1, Len(prefix)) = prefix

Contains(s, part) ==
    \E i \in 0..(Len(s) - Len(part)) : SubSeq(s, i + 1, i + Len(part)) = part

\* Lines 778-786: the savings estimated from the instance family, in
\* thousandths.
FamilySavings(instance_type) ==
    LET type == Chars(instance_type)
    IN IF StartsWith(type, <<"r", "5">>) \/ StartsWith(type, <<"m", "5">>) THEN 50000
       ELSE IF StartsWith(type, <<"c", "5">>) THEN 40000
       ELSE IF Contains(type, Chars("t3.large")) THEN 20000
       ELSE IF Contains(type, Chars("t3.xlarge")) THEN 40000
       ELSE 0

\* The sum of the amounts the recommendations show, in thousandths.
RECURSIVE ShownSavings(_)
ShownSavings(recs) ==
    IF recs = <<>> THEN 0
    ELSE ParseDollars(Head(recs).estimated_monthly_savings) + ShownSavings(Tail(recs))

\* Lines 768-801: the running instances of a forbidden type, in the order
\* of the inventory, each with the type the policy recommends.
RECURSIVE PolicyViolations(_)
PolicyViolations(running_instances) ==
    IF running_instances = <<>> THEN <<>>
    ELSE LET instance == Head(running_instances)
             instance_type == instance.InstanceType
         IN (IF ~ is_instance_type_allowed(instance_type, "ec2")
             THEN <<[resource_type |-> "EC2",
                     instance_id |-> instance.InstanceId,
                     current_instance_type |-> instance_type,
                     recommended_instance_type |->
                         get_recommended_type(instance_type, "ec2"),
                     estimated_monthly_savings |->
                         Dollars(FamilySavings(instance_type)),
                     confidence |-> "Policy-Based",
                     recommendation_source |-> "Company Cost Policy"]>>
             ELSE <<>>)
            \o PolicyViolations(Tail(running_instances))

\* Lines 817-818: the value of the option's savings opportunity, 0 without.
OptionSavings(best_option) ==
    Get(Get(Get(best_option, "savingsOpportunity", EmptyDict),
            "estimatedMonthlySavings", EmptyDict), "value", 0)

\* Line 826: what the rows that become recommendations add to total_savings,
\* the values as Compute Optimizer gave them.
RECURSIVE OptimizerSavings(_, _)
OptimizerSavings(rows, policy_violations) ==
    IF rows = <<>> THEN 0
    ELSE LET rec == Head(rows)
             flagged == \E i \in 1..Len(policy_violations) :
                            policy_violations[i].instance_id = ArnInstanceId(rec.instanceArn)
         IN (IF ~ flagged /\ rec.recommendationOptions # <<>>
             THEN OptionSavings(rec.recommendationOptions[1]) ELSE 0)
            + OptimizerSavings(Tail(rows), policy_violations)

\* Lines 804-842: the rows of Compute Optimizer that are about an instance
\* without a policy violation and that carry an option; an option of a
\* forbidden type is replaced by the recommended type.
RECURSIVE OptimizerRecommendations(_, _)
OptimizerRecommendations(rows, policy_violations) ==
    IF rows = <<>> THEN <<>>
    ELSE LET rec == Head(rows)
             instance_id == ArnInstanceId(rec.instanceArn)
             flagged == \E i \in 1..Len(policy_violations) :
                            policy_violations[i].instance_id = instance_id
             best_type == rec.recommendationOptions[1].instanceType
         IN (IF ~ flagged /\ rec.recommendationOptions # <<>>
             THEN <<[resource_type |-> "EC2",
                     instance_id |-> instance_id,
                     current_instance_type |-> rec.currentInstanceType,
                     recommended_instance_type |->
                         IF ~ is_instance_type_allowed(best_type, "ec2")
                         THEN get_recommended_type(best_type, "ec2")
                         ELSE best_type,
                     estimated_monthly_savings |->
                         Dollars(OptionSavings(rec.recommendationOptions[1])),
                     confidence |-> "rank",
                     recommendation_source |-> "Compute Optimizer"]>>
             ELSE <<>>)
            \o OptimizerRecommendations(Tail(rows), policy_violations)

\* The functions list_functions can list: one above the memory ceiling and
\* one below it.
FunctionBig == [FunctionName |-> "fn-1", MemorySize |-> 10240]

FunctionSmall == [FunctionName |-> "fn-2", MemorySize |-> 128]

ListFunctionsResponses ==
    {Raised} \cup
    {Returned(l) : l \in {<<>>, <<FunctionBig>>, <<FunctionSmall>>,
                          <<FunctionBig, FunctionSmall>>}}

\* get_function_concurrency: it raises for a function without reserved
\* concurrency, or returns the reserved number.
ConcurrencyResponses == {Raised, Returned(50), Returned(200)}

LambdaMemoryCeiling == 5120

\* Lines 505-511: (memory_size / 1024 - 1) * 1000000 * 0.0000166667 rounded
\* to hundredths, and 5.0 at least; in thousandths.  The product is
\* (memory_size - 1024) * 16.2761 thousandths.
MemorySavings(memory_size) ==
    LET monthly_savings == Round2(((memory_size - 1024) * 162761) \div 10000) * 10
    IN IF monthly_savings < 5000 THEN 5000 ELSE monthly_savings

\* check_lambda_functions, lines 485-545: per function a recommendation for
\* memory above the ceiling and one for reserved concurrency above the
\* policy's maximum.  concurrency maps a function's name to the response of
\* get_function_concurrency.
RECURSIVE LambdaRecommendations(_, _)
LambdaRecommendations(functions, concurrency) ==
    IF functions = <<>> THEN <<>>
    ELSE LET func == Head(functions)
             max_concurrency ==
                 Get(Get(get_policy("lambda"), "reserved_concurrency", EmptyDict),
                     "max", 100)
             response == concurrency[func.FunctionName]
         IN (IF func.MemorySize > LambdaMemoryCeiling
             THEN <<[resource_type |-> "Lambda",
                     function_name |-> func.FunctionName,
                     current_memory_mb |-> func.MemorySize,
                     recommended_memory_mb |-> 1024,
                     estimated_monthly_savings |-> Dollars(MemorySavings(func.MemorySize)),
                     confidence |-> "Policy-Based",
                     recommendation_source |-> "Company Cost Policy"]>>
             ELSE <<>>)
            \o (IF ~ response.raised /\ response.value > max_concurrency
                THEN <<[resource_type |-> "Lambda",
                        function_name |-> func.FunctionName,
                        current_concurrency |-> response.value,
                        recommended_concurrency |-> max_concurrency,
                        estimated_monthly_savings |-> 1000,
                        confidence |-> "Policy-Based",
                        recommendation_source |-> "Company Cost Policy"]>>
                ELSE <<>>)
            \o LambdaRecommendations(Tail(functions), concurrency)

\* check_lambda_functions, lines 469-551: a failure of list_functions is
\* logged and the function returns what it has, an empty list and count 0.
check_lambda_functions(listing, concurrency) ==
    IF listing.raised THEN <<<<>>, 0>>
    ELSE IF DOMAIN get_policy("lambda") = {} THEN <<<<>>, Len(listing.value)>>
    ELSE <<LambdaRecommendations(listing.value, concurrency), Len(listing.value)>>

\* The buckets list_buckets can list.
ListBucketsResponses ==
    {Raised} \cup {Returned(l) : l \in {<<>>, <<"bucket-1">>,
                                        <<"bucket-1", "bucket-2">>}}

\* get_bucket_lifecycle_configuration: the bucket has a configuration, has
\* none, or cannot be read.
LifecycleResponses == {"ok", "NoSuchLifecycleConfiguration", "AccessDenied"}

\* Lines 592-621: the savings estimated for a bucket, in thousandths: 5.0
\* when its size is unknown or small, 100.0 at most for a large one.
BucketEstimates == {5000, 100000}

\* check_s3_buckets, lines 577-640: one recommendation per bucket without a
\* lifecycle configuration; a bucket that cannot be read is skipped.
\* estimate maps a bucket to the savings estimated from its size.
RECURSIVE S3Recommendations(_, _, _)
S3Recommendations(buckets, lifecycle, estimate) ==
    IF buckets = <<>> THEN <<>>
    ELSE (IF lifecycle[Head(buckets)] = "NoSuchLifecycleConfiguration"
          THEN <<[resource_type |-> "S3",
                  bucket_name |-> Head(buckets),
                  issue |-> "No lifecycle policy configured",
                  estimated_monthly_savings |-> Dollars(estimate[Head(buckets)]),
                  confidence |-> "Policy-Based",
                  recommendation_source |-> "Company Cost Policy"]>>
          ELSE <<>>)
         \o S3Recommendations(Tail(buckets), lifecycle, estimate)

\* check_s3_buckets, lines 554-650: a failure of list_buckets is logged and
\* the function returns what it has.
check_s3_buckets(listing, lifecycle, estimate) ==
    IF listing.raised THEN <<<<>>, 0>>
    ELSE IF ~ Get(get_policy("s3"), "lifecycle_policy_required", FALSE)
    THEN <<<<>>, Len(listing.value)>>
    ELSE <<S3Recommendations(listing.value, lifecycle, estimate), Len(listing.value)>>

\* The kinds get_rightsizing_recommendations knows.  resource_types is a
\* comma-separated string that the code tests with "in"; here it is the set
\* of the kinds the string names.
ResourceKinds == {"EC2", "Lambda", "S3"}

\* The values of limit: negative, zero and positive ones.
Limits == -1..MaxLimit

CollectInputs == [resource_types : SUBSET ResourceKinds, limit : Limits]

\* Lines 728-732: the locals at the start of the call.
CollectLocals ==
    [enrollment_status |-> "N/A",
     total_savings |-> 0,
     policy_violations |-> <<>>,
     metrics_recommendations |-> <<>>,
     recommendations |-> <<>>,
     running_instances |-> <<>>,
     all_recommendations |-> <<>>,
     service_summary |-> <<>>,
     lambda_recs |-> <<>>,
     lambda_total_count |-> 0,
     s3_recs |-> <<>>,
     s3_total_count |-> 0]

CallLog(op, response) == [op |-> op, raised |-> response.raised]

\* Mutation of Sliced: the list is returned whole.
SlicedNever(all_recommendations, limit) ==
    all_recommendations

\* Lines 904-905: "if limit and len(all) > limit: all = all[:limit]".  A
\* negative limit drops that many entries from the end.
Sliced(all_recommendations, limit) ==
    IF limit # 0 /\ Len(all_recommendations) > limit
    THEN IF limit > 0
         THEN SubSeq(all_recommendations, 1, limit)
         ELSE SubSeq(all_recommendations, 1, Len(all_recommendations) + limit)
    ELSE all_recommendations

\* Lines 735-851: the EC2 block.  A failure of get_enrollment_status or of
\* get_ec2_instance_recommendations is swallowed; a failure of
\* describe_instances ends the call with an error text (line 847).  Lines
\* 850-851 then merge the lists, whether EC2 was requested or not.
CollectEC2 ==
    /\ col_pc = "ec2"
    /\ UNCHANGED col_in
    /\ UNCHANGED exceptCollector
    /\ IF "EC2" \notin col_in.resource_types
       THEN /\ col' = [col EXCEPT !.service_summary = [EC2 |-> 0]]
            /\ col_pc' = "lambda"
            /\ UNCHANGED <<col_calls, col_result>>
       ELSE \E enrollment \in {Raised, Returned("Active")},
               inventory \in DescribeInstancesResponses :
              IF inventory.raised
              THEN /\ col_calls' = col_calls \o
                         <<CallLog("get_enrollment_status", enrollment),
                           CallLog("describe_instances", inventory)>>
                   /\ col_result' = <<[text |-> "Error analyzing EC2 instances"]>>
                   /\ col_pc' = "done"
                   /\ col' = [col EXCEPT !.enrollment_status =
                                  IF enrollment.raised THEN "Unknown"
                                  ELSE enrollment.value]
              ELSE \E optimizer \in OptimizerResponses :
                     LET policy_violations == PolicyViolations(inventory.value)
                         recommendations ==
                             IF optimizer.raised THEN <<>>
                             ELSE OptimizerRecommendations(optimizer.value,
                                                           policy_violations)
                         all == policy_violations \o col.metrics_recommendations
                                    \o recommendations
                     IN /\ col_calls' = col_calls \o
                              <<CallLog("get_enrollment_status", enrollment),
                                CallLog("describe_instances", inventory),
                                CallLog("get_ec2_instance_recommendations",
                                        optimizer)>>
                        /\ col' = [col EXCEPT
                                     !.enrollment_status =
                                         IF enrollment.raised THEN "Unknown"
                                         ELSE enrollment.value,
                                     !.running_instances = <<inventory.value>>,
                                     !.total_savings =
                                         ShownSavings(policy_violations)
                                         + (IF optimizer.raised THEN 0
                                            ELSE OptimizerSavings(optimizer.value,
                                                                  policy_violations)),
                                     !.policy_violations = policy_violations,
                                     !.recommendations = recommendations,
                                     !.all_recommendations = all,
                                     !.service_summary = [EC2 |-> Len(all)]]
                        /\ col_pc' = "lambda"
                        /\ UNCHANGED col_result

\* Lines 865-878: the Lambda block.
CollectLambda ==
    /\ col_pc = "lambda"
    /\ UNCHANGED <<col_in, col_result>>
    /\ UNCHANGED exceptCollector
    /\ col_pc' = "s3"
    /\ IF "Lambda" \notin col_in.resource_types
       THEN UNCHANGED <<col, col_calls>>
       ELSE \E listing \in ListFunctionsResponses,
               concurrency \in [{"fn-1", "fn-2"} -> ConcurrencyResponses] :
              LET checked == check_lambda_functions(listing, concurrency)
              IN /\ col_calls' = Append(col_calls, CallLog("list_functions", listing))
                 /\ col' = [col EXCEPT
                              !.total_savings = @ + ShownSavings(checked[1]),
                              !.lambda_recs = checked[1],
                              !.lambda_total_count = checked[2],
                              !.all_recommendations = @ \o checked[1],
                              !.service_summary =
                                  ("Lambda" :> Len(checked[1])) @@ @]

\* Lines 880-891: the S3 block.
CollectS3 ==
    /\ col_pc = "s3"
    /\ UNCHANGED <<col_in, col_result>>
    /\ UNCHANGED exceptCollector
    /\ col_pc' = "return"
    /\ IF "S3" \notin col_in.resource_types
       THEN UNCHANGED <<col, col_calls>>
       ELSE \E listing \in ListBucketsResponses,
               lifecycle \in [{"bucket-1", "bucket-2"} -> LifecycleResponses],
               estimate \in [{"bucket-1", "bucket-2"} -> BucketEstimates] :
              LET checked == check_s3_buckets(listing, lifecycle, estimate)
              IN /\ col_calls' = Append(col_calls, CallLog("list_buckets", listing))
                 /\ col' = [col EXCEPT
                              !.total_savings = @ + ShownSavings(checked[1]),
                              !.s3_recs = checked[1],
                              !.s3_total_count = checked[2],
                              !.all_recommendations = @ \o checked[1],
                              !.service_summary =
                                  ("S3" :> Len(checked[1])) @@ @]

\* Lines 904-966: the merged list is cut to limit and the result is built
\* and returned as JSON.
CollectReturn ==
    /\ col_pc = "return"
    /\ UNCHANGED <<col_in, col_calls>>
    /\ UNCHANGED exceptCollector
    /\ col_pc' = "done"
    /\ LET all_recommendations == Sliced(col.all_recommendations, col_in.limit)
       IN /\ col' = [col EXCEPT !.all_recommendations = all_recommendations]
          /\ col_result' =
               <<[json |->
                   [enrollment_status |-> col.enrollment_status,
                    resource_inventory |->
                        [total_running_instances |->
                             IF col.running_instances # <<>>
                             THEN Len(col.running_instances[1]) ELSE 0,
                         total_lambda_functions |-> col.lambda_total_count,
                         total_s3_buckets |-> col.s3_total_count,
                         services_analyzed |-> DOMAIN col.service_summary,
                         recommendations_by_service |-> col.service_summary],
                    policy_violations |-> Len(col.policy_violations),
                    optimizer_recommendations |-> Len(col.recommendations),
                    total_recommendations |-> Len(all_recommendations),
                    estimated_total_monthly_savings |-> Dollars(col.total_savings),
                    recommendations |-> all_recommendations,
                    compliance_status |->
                        IF all_recommendations = <<>> THEN "compliant"
                        ELSE IF col.policy_violations # <<>>
                        THEN "violations_detected"
                        ELSE "compliant_with_optimizations"]]>>

NoCollect ==
    /\ col_pc = "idle"
    /\ col_in = <<>>
    /\ col = <<>>
    /\ col_calls = <<>>
    /\ col_result = <<>>

--------------------------------------------------------------------------
(* services/analytics.py: analyze_cost *)

\* Amounts of money are integers here, in thousandths of the currency unit
\* where Cost Explorer reports them and in hundredths once rounded.

\* One ResultsByTime entry of get_cost_and_usage: its groups, label to
\* amount.
ItemBase == [Groups |-> [EC2 |-> 1000, S3 |-> 4]]

ItemGrown == [Groups |-> [EC2 |-> 2500, S3 |-> 4]]

ItemNoS3 == [Groups |-> [EC2 |-> 1000]]

ItemOnlyLambda == [Groups |-> [Lambda |-> 300]]

\* What get_cost_and_usage returns for the two windows: nothing, one entry,
\* or two entries between which a group rises, declines, moves by less than
\* half a hundredth, appears or disappears.
UsageResponses ==
    {Raised} \cup
    {Returned(l) : l \in {<<>>, <<ItemBase>>, <<ItemBase, ItemGrown>>,
                          <<ItemGrown, ItemBase>>, <<ItemNoS3, ItemBase>>,
                          <<ItemBase, ItemNoS3>>, <<ItemBase, ItemBase>>,
                          <<ItemOnlyLambda, ItemGrown>>}}

\* Line 13
_SUPPORTED_GRANULARITY == {"DAILY", "MONTHLY"}

\* The granularities a caller asks for, in upper case as line 32 makes them.
Granularities == _SUPPORTED_GRANULARITY \cup {"HOURLY"}

\* _determine_period_count, lines 152-159; math.ceil(days / 30) is
\* (days + 29) div 30 for a positive number of days.
_determine_period_count(days, granularity, available_points) ==
    IF available_points = 0 THEN 0
    ELSE IF granularity = "DAILY"
    THEN IF days < available_points THEN days ELSE available_points
    ELSE LET ceil == (days + 29) \div 30
             months_requested == IF ceil > 1 THEN ceil ELSE 1
         IN IF months_requested < available_points
            THEN months_requested ELSE available_points

\* Line 58: usage_results[-period_count:] if usage_results else [].
CurrentPeriod(usage_results, period_count) ==
    IF usage_results = <<>> THEN <<>>
    ELSE IF period_count = 0 THEN usage_results
    ELSE SubSeq(usage_results, Len(usage_results) - period_count + 1,
                Len(usage_results))

\* Line 59: the period_count entries before the current ones if there are
\* that many, else whatever stands before the current ones.
PreviousPeriod(usage_results, period_count) ==
    IF Len(usage_results) >= period_count * 2
    THEN IF period_count = 0 THEN <<>>
         ELSE SubSeq(usage_results, Len(usage_results) - 2 * period_count + 1,
                     Len(usage_results) - period_count)
    ELSE SubSeq(usage_results, 1, Len(usage_results) - period_count)

\* _aggregate_groups, lines 169-177: label to the sum of its amounts.
RECURSIVE _aggregate_groups(_)
_aggregate_groups(results) ==
    IF results = <<>> THEN <<>>
    ELSE LET rest == _aggregate_groups(Tail(results))
             groups == Head(results).Groups
         IN [label \in (DOMAIN groups) \cup (DOMAIN rest) |->
                Get(groups, label, 0) + Get(rest, label, 0)]

\* Lines 196-205: the groups whose amount differs between the periods, each
\* with its delta.
Movers(current, previous) ==
    {[label |-> key,
      amount_delta |-> Get(current, key, 0) - Get(previous, key, 0)] :
         key \in {key \in (DOMAIN current) \cup (DOMAIN previous) :
                     Get(current, key, 0) # Get(previous, key, 0)}}

\* Line 207: the orders movers.sort can leave the movers in, by delta and
\* downwards if descending; movers of equal delta stand in the order the
\* set of labels was iterated in.
SortedMovers(movers, descending) ==
    {order \in [1..Cardinality(movers) -> movers] :
        /\ \A i, j \in DOMAIN order : i # j => order[i] # order[j]
        /\ \A i, j \in DOMAIN order :
               i < j => IF descending
                        THEN order[i].amount_delta >= order[j].amount_delta
                        ELSE order[i].amount_delta <= order[j].amount_delta}

\* Lines 208-222: of the sorted movers, those that rose (descending) or
\* fell (not descending), with the delta rounded.
RECURSIVE FormatMovers(_, _)
FormatMovers(order, descending) ==
    IF order = <<>> THEN <<>>
    ELSE LET amount_delta == Head(order).amount_delta
             skipped == IF descending THEN amount_delta <= 0
                        ELSE amount_delta >= 0
         IN (IF skipped THEN <<>>
             ELSE <<[label |-> Head(order).label,
                     amountDelta |-> Round2(amount_delta)]>>)
            \o FormatMovers(Tail(order), descending)

\* list[:n]
Prefix(list, n) == SubSeq(list, 1, IF Len(list) < n THEN Len(list) ELSE n)

\* What a query for an optional part of the report gives back: it raises
\* ClientError or BotoCoreError, returns no data, or returns data.
QueryResponses == {Raised, Returned(<<>>), Returned(<<"row">>)}

\* The record of a query: whether it raised, and whether it returned data.
QueryLog(op, response) ==
    [op |-> op, raised |-> response.raised,
     data |-> ~ response.raised /\ response.value # <<>>]

\* A function of analyze_cost returns its value, <<>> for None and <<v>> for
\* a value v, and leaves the list of warnings.
Outcome(value, warnings) == [value |-> value, warnings |-> warnings]

\* _safe_forecast, lines 243-281.
_safe_forecast(response, warnings) ==
    IF response.raised
    THEN Outcome(<<>>, Append(warnings, "Unable to retrieve forecast"))
    ELSE IF response.value = <<>> THEN Outcome(<<>>, warnings)
    ELSE Outcome(<<[points |-> response.value]>>, warnings)

\* Mutation of _collect_coverage: a failure of the Savings Plans query ends
\* the function.
CollectCoverageStopsAtFirst(sp, ri, warnings) ==
    IF sp.raised
    THEN Outcome(<<>>, Append(warnings, "Savings Plans coverage unavailable"))
    ELSE LET coverage ==
                 Update(IF sp.value # <<>> THEN [savingsPlans |-> sp.value]
                        ELSE EmptyDict,
                        IF ~ ri.raised /\ ri.value # <<>>
                        THEN [reservedInstances |-> ri.value] ELSE EmptyDict)
         IN Outcome(IF DOMAIN coverage = {} THEN <<>> ELSE <<coverage>>,
                    IF ri.raised
                    THEN Append(warnings, "Reserved Instance coverage unavailable")
                    ELSE warnings)

\* _collect_coverage, lines 284-309: the coverage dict (None if empty) and
\* the warnings after the two queries.
_collect_coverage(sp, ri, warnings) ==
    LET savingsPlans == IF ~ sp.raised /\ sp.value # <<>>
                        THEN [savingsPlans |-> sp.value] ELSE EmptyDict
        reservedInstances == IF ~ ri.raised /\ ri.value # <<>>
                             THEN [reservedInstances |-> ri.value] ELSE EmptyDict
        coverage == Update(savingsPlans, reservedInstances)
        after_sp == IF sp.raised
                    THEN Append(warnings, "Savings Plans coverage unavailable")
                    ELSE warnings
        after_ri == IF ri.raised
                    THEN Append(after_sp, "Reserved Instance coverage unavailable")
                    ELSE after_sp
    IN Outcome(IF DOMAIN coverage = {} THEN <<>> ELSE <<coverage>>, after_ri)

\* _collect_anomalies, lines 312-344.
_collect_anomalies(response, warnings) ==
    IF response.raised
    THEN Outcome(<<>>, Append(warnings, "Anomaly detection unavailable"))
    ELSE IF response.value = <<>> THEN Outcome(<<>>, warnings)
    ELSE Outcome(<<response.value>>, warnings)

\* The arguments of analyze_cost: the days of the window and the optional
\* parts asked for.  The granularity is DAILY.
AnalyzeInputs ==
    [days : 0..MaxDays, granularity : Granularities, include_forecast : BOOLEAN,
     include_savings : BOOLEAN, include_anomalies : BOOLEAN]

AnalyzeLocals ==
    [usage_results |-> <<>>,
     period_count |-> 0,
     current_period |-> <<>>,
     previous_period |-> <<>>,
     group_aggregates_current |-> <<>>,
     group_aggregates_previous |-> <<>>,
     biggest_risers |-> <<>>,
     biggest_declines |-> <<>>,
     warnings |-> <<>>,
     forecast |-> <<>>,
     coverage |-> <<>>,
     anomalies |-> <<>>]

\* Lines 29-72: the arguments are checked, the two windows are fetched and
\* the core of the report is computed.  A window of no days or an
\* unsupported granularity raises ValueError, a failure of
\* get_cost_and_usage raises RuntimeError.
AnalyzeCore ==
    /\ ana_pc = "core"
    /\ UNCHANGED ana_in
    /\ UNCHANGED exceptAnalytics
    /\ IF ana_in.days <= 0 \/ ana_in.granularity \notin _SUPPORTED_GRANULARITY
       THEN /\ ana_result' = <<[raised |-> "ValueError"]>>
            /\ ana_pc' = "done"
            /\ UNCHANGED <<ana, ana_calls>>
       ELSE \E usage \in UsageResponses :
              /\ ana_calls' = Append(ana_calls, QueryLog("get_cost_and_usage", usage))
              /\ IF usage.raised
                 THEN /\ ana_result' = <<[raised |-> "RuntimeError"]>>
                      /\ ana_pc' = "done"
                      /\ UNCHANGED ana
                 ELSE LET period_count ==
                              _determine_period_count(ana_in.days, ana_in.granularity,
                                                      Len(usage.value))
                          current_period == CurrentPeriod(usage.value, period_count)
                          previous_period == PreviousPeriod(usage.value, period_count)
                          current == _aggregate_groups(current_period)
                          previous == _aggregate_groups(previous_period)
                          movers == Movers(current, previous)
                      IN \E down \in SortedMovers(movers, TRUE),
                            up \in SortedMovers(movers, FALSE) :
                           /\ ana' = [ana EXCEPT
                                        !.usage_results = usage.value,
                                        !.period_count = period_count,
                                        !.current_period = current_period,
                                        !.previous_period = previous_period,
                                        !.group_aggregates_current = current,
                                        !.group_aggregates_previous = previous,
                                        !.biggest_risers = FormatMovers(down, TRUE),
                                        !.biggest_declines = FormatMovers(up, FALSE)]
                           /\ ana_pc' = "forecast"
                           /\ UNCHANGED ana_result

\* Lines 79-80.
SafeForecast ==
    /\ ana_pc = "forecast"
    /\ UNCHANGED <<ana_in, ana_result>>
    /\ UNCHANGED exceptAnalytics
    /\ ana_pc' = "coverage"
    /\ IF ~ ana_in.include_forecast
       THEN UNCHANGED <<ana, ana_calls>>
       ELSE \E response \in QueryResponses :
              LET outcome == _safe_forecast(response, ana.warnings)
              IN /\ ana_calls' = Append(ana_calls, QueryLog("get_cost_forecast", response))
                 /\ ana' = [ana EXCEPT !.forecast = outcome.value,
                                       !.warnings = outcome.warnings]

\* Lines 82-83.
CollectCoverage ==
    /\ ana_pc = "coverage"
    /\ UNCHANGED <<ana_in, ana_result>>
    /\ UNCHANGED exceptAnalytics
    /\ ana_pc' = "anomalies"
    /\ IF ~ ana_in.include_savings
       THEN UNCHANGED <<ana, ana_calls>>
       ELSE \E sp \in QueryResponses, ri \in QueryResponses :
              LET outcome == _collect_coverage(sp, ri, ana.warnings)
              IN /\ ana_calls' =
                       ana_calls \o
                       <<QueryLog("get_savings_plans_coverage", sp),
                         QueryLog("get_reservation_coverage", ri)>>
                 /\ ana' = [ana EXCEPT !.coverage = outcome.value,
                                       !.warnings = outcome.warnings]

\* Lines 85-86.
CollectAnomalies ==
    /\ ana_pc = "anomalies"
    /\ UNCHANGED <<ana_in, ana_result>>
    /\ UNCHANGED exceptAnalytics
    /\ ana_pc' = "return"
    /\ IF ~ ana_in.include_anomalies
       THEN UNCHANGED <<ana, ana_calls>>
       ELSE \E response \in QueryResponses :
              LET outcome == _collect_anomalies(response, ana.warnings)
              IN /\ ana_calls' = Append(ana_calls, QueryLog("get_anomalies", response))
                 /\ ana' = [ana EXCEPT !.anomalies = outcome.value,
                                       !.warnings = outcome.warnings]

\* Lines 88-122: the report, with the optional parts that have a value.
AnalyzeReturn ==
    /\ ana_pc = "return"
    /\ UNCHANGED <<ana_in, ana, ana_calls>>
    /\ UNCHANGED exceptAnalytics
    /\ ana_pc' = "done"
    /\ LET response ==
               [period |-> [dataPoints |-> ana.period_count],
                biggestMovers |-> [risers |-> Prefix(ana.biggest_risers, 5),
                                   decliners |-> Prefix(ana.biggest_declines, 5)]]
           forecast == IF ana.forecast # <<>>
                       THEN [forecast |-> ana.forecast[1]] ELSE EmptyDict
           coverage == IF ana.coverage # <<>>
                       THEN [coverage |-> ana.coverage[1]] ELSE EmptyDict
           anomalies == IF ana.anomalies # <<>>
                        THEN [anomalies |-> ana.anomalies[1]] ELSE EmptyDict
           warnings == IF ana.warnings # <<>>
                       THEN [warnings |-> ana.warnings] ELSE EmptyDict
       IN ana_result' =
              <<[response |->
                    Update(Update(Update(Update(response, forecast), coverage),
                                  anomalies), warnings)]>>

NoAnalysis ==
    /\ ana_pc = "idle"
    /\ ana_in = <<>>
    /\ ana = <<>>
    /\ ana_calls = <<>>
    /\ ana_result = <<>>

--------------------------------------------------------------------------
(* workflow_runtime/app.py: the executor tools *)

\* One external call of a tool: the operation, whether it is a waiter, and
\* whether it changes the resource.
ToolStep(op, wait, mutating) == [op |-> op, wait |-> wait, mutating |-> mutating]

\* The external calls each tool makes inside its try, in order.
ToolCalls ==
    [ec2_stop_instance |->
         <<ToolStep("stop_instances", FALSE, TRUE),
           ToolStep("instance_stopped", TRUE, FALSE)>>,
     ec2_modify_instance_type |->
         <<ToolStep("modify_instance_attribute", FALSE, TRUE)>>,
     ec2_start_instance |->
         <<ToolStep("start_instances", FALSE, TRUE),
           ToolStep("instance_running", TRUE, FALSE)>>,
     ec2_verify_instance_type |->
         <<ToolStep("describe_instances", FALSE, FALSE)>>,
     s3_put_lifecycle_policy |->
         <<ToolStep("put_bucket_lifecycle_configuration", FALSE, TRUE)>>,
     lambda_update_memory |->
         <<ToolStep("update_function_configuration", FALSE, TRUE)>>,
     lambda_update_concurrency |->
         <<ToolStep("put_function_concurrency", FALSE, TRUE)>>,
     rds_modify_instance |->
         <<ToolStep("modify_db_instance", FALSE, TRUE)>>,
     ebs_modify_volume |->
         <<ToolStep("modify_volume", FALSE, TRUE)>>]

ToolNames == DOMAIN ToolCalls

\* The message a tool returns when every call of its try returned.
SuccessText ==
    [ec2_stop_instance |-> "Successfully stopped instance",
     ec2_modify_instance_type |-> "Successfully modified instance",
     ec2_start_instance |-> "Successfully started instance",
     ec2_verify_instance_type |-> "Verified: Instance is expected type and running",
     s3_put_lifecycle_policy |-> "Successfully applied lifecycle policy to bucket",
     lambda_update_memory |-> "Successfully updated Lambda function memory",
     lambda_update_concurrency |-> "Successfully updated Lambda function concurrency",
     rds_modify_instance |-> "Successfully initiated RDS instance modification",
     ebs_modify_volume |-> "Successfully initiated EBS volume modification"]

\* The message of the "except ClientError" of each tool.
FailedText ==
    [ec2_stop_instance |-> "Failed to stop instance",
     ec2_modify_instance_type |-> "Failed to modify instance",
     ec2_start_instance |-> "Failed to start instance",
     ec2_verify_instance_type |-> "Failed to verify instance",
     s3_put_lifecycle_policy |-> "Failed to apply lifecycle policy",
     lambda_update_memory |-> "Failed to update Lambda",
     lambda_update_concurrency |-> "Failed to update Lambda",
     rds_modify_instance |-> "Failed to modify RDS instance",
     ebs_modify_volume |-> "Failed to modify EBS volume"]

\* The message of the "except Exception" of each tool.
ErrorText ==
    [ec2_stop_instance |-> "Error stopping instance",
     ec2_modify_instance_type |-> "Error modifying instance",
     ec2_start_instance |-> "Error starting instance",
     ec2_verify_instance_type |-> "Error verifying instance",
     s3_put_lifecycle_policy |-> "Error applying lifecycle policy",
     lambda_update_memory |-> "Error updating Lambda memory",
     lambda_update_concurrency |-> "Error updating Lambda concurrency",
     rds_modify_instance |-> "Error modifying RDS instance",
     ebs_modify_volume |-> "Error modifying EBS volume"]

\* The arguments of a call of a tool: the resource and the new or expected
\* value (None for the tools that take none).
ToolTargets == {"res-1", "res-2"}

ToolValues(tool) ==
    IF tool \in {"ec2_stop_instance", "ec2_start_instance"} THEN {None}
    ELSE IF tool \in {"ec2_modify_instance_type", "ec2_verify_instance_type"}
    THEN {"t3.medium", "t3.small"}
    ELSE {"value-1", "value-2"}

ToolInputs ==
    {in \in [tool : ToolNames, target : ToolTargets,
             value : UNION {ToolValues(t) : t \in ToolNames}] :
        in.value \in ToolValues(in.tool)}

\* What describe_instances shows of the instance: its type and state, or no
\* reservation at all.
InstanceViews ==
    {[found |-> FALSE]} \cup
    [found : {TRUE}, InstanceType : {"t3.medium", "r5.large"},
     State : {"running", "stopped"}]

\* The outcomes of an external call: it returns, or it raises ClientError
\* or another exception of the client library; a waiter raises WaiterError.
ToolOutcomes(step) ==
    IF step.wait THEN {"ok", "WaiterError"}
    ELSE {"ok", "ClientError", "EndpointConnectionError"}

\* A returned message: its fixed text and the resource it names.
ToolMessage(text, target) == [text |-> text, target |-> target]

\* Mutation of ExceptMessage: a waiter that gives up counts as success.
ExceptMessageMasksWaiter(tool, target, error) ==
    IF error = "ClientError" THEN ToolMessage(FailedText[tool], target)
    ELSE IF error = "WaiterError" THEN ToolMessage(SuccessText[tool], target)
    ELSE ToolMessage(ErrorText[tool], target)

\* The two except clauses of a tool: ClientError first, then Exception.
ExceptMessage(tool, target, error) ==
    IF error = "ClientError" THEN ToolMessage(FailedText[tool], target)
    ELSE ToolMessage(ErrorText[tool], target)

\* Lines 129-139: what ec2_verify_instance_type makes of the instance it
\* was shown.  Indexing a response without reservations raises IndexError,
\* which the "except Exception" turns into a message.
VerifyMessage(target, expected_type, view) ==
    IF ~ view.found THEN ExceptMessage("ec2_verify_instance_type", target, "IndexError")
    ELSE IF view.InstanceType = expected_type /\ view.State = "running"
    THEN ToolMessage(SuccessText["ec2_verify_instance_type"], target)
    ELSE IF view.InstanceType = expected_type
    THEN ToolMessage("Instance is expected type but in state", target)
    ELSE ToolMessage("Verification failed", target)

\* The next external call of the tool, with one of its outcomes.  A raised
\* exception leaves the try; after the last call the tool returns.
ToolCall ==
    /\ exe_pc = "call"
    /\ UNCHANGED <<exe_in, exe_result>>
    /\ UNCHANGED exceptExecutor
    /\ LET step == ToolCalls[exe_in.tool][exe_idx]
       IN \E outcome \in ToolOutcomes(step), view \in InstanceViews :
            /\ exe_calls' = Append(exe_calls,
                   [op |-> step.op, target |-> exe_in.target,
                    mutating |-> step.mutating, outcome |-> outcome,
                    view |-> IF step.op = "describe_instances" /\ outcome = "ok"
                             THEN view ELSE [found |-> FALSE]])
            /\ IF outcome # "ok"
               THEN exe_pc' = "except" /\ UNCHANGED exe_idx
               ELSE IF exe_idx = Len(ToolCalls[exe_in.tool])
               THEN exe_pc' = "return" /\ UNCHANGED exe_idx
               ELSE exe_pc' = "call" /\ exe_idx' = exe_idx + 1

\* The except clause that catches the exception returns its message.
ToolExcept ==
    /\ exe_pc = "except"
    /\ UNCHANGED <<exe_in, exe_idx, exe_calls>>
    /\ UNCHANGED exceptExecutor
    /\ exe_pc' = "done"
    /\ exe_result' = <<ExceptMessage(exe_in.tool, exe_in.target,
                                     exe_calls[Len(exe_calls)].outcome)>>

\* Every call returned: the tool returns its message.
ToolReturn ==
    /\ exe_pc = "return"
    /\ UNCHANGED <<exe_in, exe_idx, exe_calls>>
    /\ UNCHANGED exceptExecutor
    /\ exe_pc' = "done"
    /\ exe_result' =
           <<IF exe_in.tool = "ec2_verify_instance_type"
             THEN VerifyMessage(exe_in.target, exe_in.value,
                                exe_calls[Len(exe_calls)].view)
             ELSE ToolMessage(SuccessText[exe_in.tool], exe_in.target)>>

NoExecutor ==
    /\ exe_pc = "idle"
    /\ exe_in = <<>>
    /\ exe_idx = 1
    /\ exe_calls = <<>>
    /\ exe_result = <<>>

--------------------------------------------------------------------------
(* The runner alone: one call of run(action, context)                      *)

\* The calls of the model: every list with the action that has registered
\* steps, lists of at most one recommendation with the other names.
RunInputs ==
    {in \in ActionNames \X RecLists :
       in[1] = "optimize_existing_instances" \/ Len(in[2]) <= 1}

NoPlan ==
    /\ plan_in = <<>>
    /\ plan_out = <<>>

NoWorkflow ==
    /\ wf_pc = "idle"
    /\ wf_in = <<>>
    /\ wf = <<>>
    /\ wf_calls = <<>>
    /\ wf_result = <<>>

NoPaginate ==
    /\ pag_pc = "idle"
    /\ pag_in = <<>>
    /\ pag = <<>>
    /\ pag_request = <<>>
    /\ pag_result = <<>>

NoExecute ==
    /\ WORKFLOW_AGENT_ENDPOINT = None
    /\ STRANDS_AVAILABLE = TRUE
    /\ ew_pc = "idle"
    /\ ew_request = <<>>
    /\ ew_posted = <<>>
    /\ ew_answer = <<>>
    /\ ew_run = <<>>
    /\ ew_response = <<>>

NoEntries ==
    /\ NoPlan
    /\ NoWorkflow
    /\ NoPaginate
    /\ NoExecute

NoRuns ==
    /\ action = [r \in RunIds |-> None]
    /\ step_context = [r \in RunIds |-> <<>>]
    /\ pc = [r \in RunIds |-> "idle"]

RunState ==
    /\ stepIdx = [r \in RunIds |-> 0]
    /\ k = [r \in RunIds |-> 0]
    /\ acc = [r \in RunIds |-> <<>>]
    /\ total_savings = [r \in RunIds |-> 0]
    /\ executed = [r \in RunIds |-> <<>>]
    /\ workflow_results = [r \in RunIds |-> <<>>]
    /\ calls = [r \in RunIds |-> <<>>]

NoRequests ==
    /\ now = 1
    /\ requests = [q \in RunIds |-> <<>>]
    /\ responses = [q \in RunIds |-> <<>>]
    /\ dispatched = [q \in RunIds |-> <<>>]
    /\ async_event = [q \in RunIds |-> <<>>]
    /\ async_result = [q \in RunIds |-> <<>>]

NoTools ==
    /\ NoPolicy
    /\ NoCollect
    /\ NoAnalysis
    /\ NoExecutor
    /\ NoEntries

Init ==
    /\ \E in \in RunInputs :
         /\ action = [r \in RunIds |-> IF r = 1 THEN in[1] ELSE None]
         /\ step_context = [r \in RunIds |->
                              IF r = 1 THEN [recommendations |-> in[2]] ELSE <<>>]
    /\ pc = [r \in RunIds |-> IF r = 1 THEN "pending" ELSE "idle"]
    /\ RunState
    /\ ec2_faults = TRUE
    /\ AGENTCORE_AVAILABLE = TRUE
    /\ workflow_endpoint = None
    /\ traffic = {}
    /\ NoRequests
    /\ NoTools

Next ==
    \/ \E r \in RunIds : RunViaStrands(r)
    \/ \E r \in RunIds : ExecuteWorkflowStep(r)
    \/ \E r \in RunIds : ValidateRec(r)
    \/ \E r \in RunIds : ValidateReturn(r)
    \/ \E r \in RunIds : ApplyCall(r)
    \/ \E r \in RunIds : ApplyReturn(r)
    \/ \E r \in RunIds : VerifyChange(r)
    \/ \E r \in RunIds : VerifyReturn(r)

Spec == Init /\ [][Next]_vars

--------------------------------------------------------------------------
(* The service: submits, their executions, and the runs of the agent       *)

WorkflowEndpoints == {None, "arn:workflow-agent"}

\* In one behaviour the clients send one kind of request, any number of
\* times, and the calls on EC2 succeed.
InitApi ==
    /\ NoRuns
    /\ RunState
    /\ ec2_faults = FALSE
    /\ AGENTCORE_AVAILABLE \in BOOLEAN
    /\ workflow_endpoint \in WorkflowEndpoints
    /\ traffic \in {{event} : event \in HttpEvents}
    /\ NoRequests
    /\ NoTools

NextApi ==
    \/ \E q \in RunIds : Handler(q)
    \/ \E q \in RunIds : AgentRuns(q)
    \/ \E q \in RunIds : GatewayReturns(q)
    \/ Next

SpecApi == InitApi /\ [][NextApi]_vars

--------------------------------------------------------------------------
(* The policy helpers alone: one call of each on one pair of arguments     *)

\* No run, no request: the state of the service when only a tool is used.
NoService ==
    /\ NoRuns
    /\ RunState
    /\ ec2_faults = FALSE
    /\ AGENTCORE_AVAILABLE = FALSE
    /\ workflow_endpoint = None
    /\ traffic = {}
    /\ NoRequests

InitPolicy ==
    /\ NoService
    /\ NoEntries
    /\ NoCollect
    /\ NoAnalysis
    /\ NoExecutor
    /\ pol_in \in {<<[instance_type |-> v, service |-> s]>> :
                       v \in PolicyValues, s \in PolicyServices}
    /\ pol_allowed = <<>>
    /\ pol_recommended = <<>>

NextPolicy ==
    \/ IsInstanceTypeAllowed
    \/ GetRecommendedType

SpecPolicy == InitPolicy /\ [][NextPolicy]_vars

--------------------------------------------------------------------------
(* The collector alone: one call of get_rightsizing_recommendations        *)

InitCollect ==
    /\ NoService
    /\ NoEntries
    /\ NoPolicy
    /\ NoAnalysis
    /\ NoExecutor
    /\ col_pc = "ec2"
    /\ col_in \in CollectInputs
    /\ col = CollectLocals
    /\ col_calls = <<>>
    /\ col_result = <<>>

NextCollect ==
    \/ CollectEC2
    \/ CollectLambda
    \/ CollectS3
    \/ CollectReturn

SpecCollect == InitCollect /\ [][NextCollect]_vars

--------------------------------------------------------------------------
(* The cost analysis alone: one call of analyze_cost                       *)

InitAnalyze ==
    /\ NoService
    /\ NoEntries
    /\ NoPolicy
    /\ NoCollect
    /\ NoExecutor
    /\ ana_pc = "core"
    /\ ana_in \in AnalyzeInputs
    /\ ana = AnalyzeLocals
    /\ ana_calls = <<>>
    /\ ana_result = <<>>

NextAnalyze ==
    \/ AnalyzeCore
    \/ SafeForecast
    \/ CollectCoverage
    \/ CollectAnomalies
    \/ AnalyzeReturn

SpecAnalyze == InitAnalyze /\ [][NextAnalyze]_vars

--------------------------------------------------------------------------
(* The executor tools alone: one call of one tool                          *)

InitExecutor ==
    /\ NoService
    /\ NoEntries
    /\ NoPolicy
    /\ NoCollect
    /\ NoAnalysis
    /\ exe_pc = "call"
    /\ exe_in \in ToolInputs
    /\ exe_idx = 1
    /\ exe_calls = <<>>
    /\ exe_result = <<>>

NextExecutor ==
    \/ ToolCall
    \/ ToolExcept
    \/ ToolReturn

SpecExecutor == InitExecutor /\ [][NextExecutor]_vars

--------------------------------------------------------------------------
(* app.py, automation: the execution plan of a submit, lines 226-273       *)

\* The longest batch a submit builds a plan from.
MaxPlanRecs == 5

PlanEc2 ==
    [resource_type |-> "EC2", instance_id |-> "i-1",
     current_instance_type |-> "r5.large",
     recommended_instance_type |-> "t3.medium",
     estimated_monthly_savings |-> "$50.00"]

\* A recommendation without resource_type.
PlanNoType == [instance_id |-> "i-2", estimated_monthly_savings |-> "$5.00"]

PlanS3 == [resource_type |-> "S3", bucket_name |-> "bucket-1"]

PlanLambda ==
    [resource_type |-> "Lambda", function_name |-> "fn-1",
     current_memory_mb |-> 10240, recommended_memory_mb |-> 1024]

PlanRds == [resource_type |-> "RDS", db_instance_id |-> "db-1"]

PlanRecs == {PlanEc2, PlanNoType, PlanS3, PlanLambda, PlanRds}

PlanInputs == SeqsUpTo(PlanRecs, MaxPlanRecs)

\* Line 228: rec.get('resource_type', 'EC2')
ResourceType(rec) == Get(rec, "resource_type", "EC2")

\* Lines 226-231: resource_summary, resource type to the recommendations of
\* that type in the order of the batch.
ResourceSummary(recommendations) ==
    [rtype \in {ResourceType(recommendations[i]) : i \in 1..Len(recommendations)} |->
        SelectSeq(recommendations, LAMBDA rec : ResourceType(rec) = rtype)]

\* Line 240
Ec2Line(rec) ==
    [text |-> "- Stop instance, modify from to, restart and verify",
     args |-> <<Get(rec, "instance_id", "N/A"),
                Get(rec, "current_instance_type", "N/A"),
                Get(rec, "recommended_instance_type", "N/A")>>]

\* Line 249
S3Line(rec) ==
    [text |-> "- Apply Intelligent-Tiering lifecycle policy to bucket",
     args |-> <<Get(rec, "bucket_name", "N/A")>>]

\* Lines 258-263
LambdaLine(rec) ==
    [text |-> "- Update function",
     args |-> <<Get(rec, "function_name", "N/A")>>
              \o (IF "recommended_memory_mb" \in DOMAIN rec
                  THEN <<"memory", Get(rec, "current_memory_mb", "N/A"),
                         rec.recommended_memory_mb>>
                  ELSE <<>>)
              \o (IF "recommended_concurrency" \in DOMAIN rec
                  THEN <<"concurrency", Get(rec, "current_concurrency", "N/A"),
                         rec.recommended_concurrency>>
                  ELSE <<>>)]

\* The line of the plan about one recommendation, by the section it is in.
PlanLine(rtype, rec) ==
    CASE rtype = "EC2" -> Ec2Line(rec)
      [] rtype = "S3" -> S3Line(rec)
      [] rtype = "Lambda" -> LambdaLine(rec)

\* group[:3]
First3(group) == SubSeq(group, 1, IF Len(group) < 3 THEN Len(group) ELSE 3)

\* Lines 237-243, 246-252, 255-266: one section of the plan: its heading
\* with the size of the group, a line for each of the first 3, and the
\* number of the others when there are more than 3.
PlanSection(rtype, heading, group) ==
    [heading |-> heading,
     count |-> Len(group),
     lines |-> [i \in 1..Len(First3(group)) |-> PlanLine(rtype, First3(group)[i])],
     more |-> IF Len(group) > 3 THEN <<Len(group) - 3>> ELSE <<>>]

\* Lines 269-272: the sum of the savings strings, in cents; every string of
\* PlanRecs parses.
RECURSIVE PlanSavings(_)
PlanSavings(recommendations) ==
    IF recommendations = <<>> THEN 0
    ELSE SavingsValue(Get(Head(recommendations), "estimated_monthly_savings", "$0"))
         + PlanSavings(Tail(recommendations))

\* Lines 226-273: execution_plan, the sections in the order they are
\* written and the total that ends the text.
ExecutionPlan(recommendations) ==
    LET resource_summary == ResourceSummary(recommendations)
        Part(rtype, heading) ==
            IF rtype \in DOMAIN resource_summary
            THEN <<PlanSection(rtype, heading, resource_summary[rtype])>>
            ELSE <<>>
    IN [sections |-> Part("EC2", "EC2 Instances")
                     \o Part("S3", "S3 Buckets")
                     \o Part("Lambda", "Lambda Functions"),
        total_savings |-> PlanSavings(recommendations)]

\* The plan of one batch is built.
BuildPlan ==
    /\ plan_out = <<>>
    /\ plan_out' = <<ExecutionPlan(plan_in)>>
    /\ UNCHANGED plan_in
    /\ UNCHANGED exceptPlan

InitPlan ==
    /\ NoService
    /\ NoPolicy
    /\ NoCollect
    /\ NoAnalysis
    /\ NoExecutor
    /\ NoWorkflow
    /\ NoPaginate
    /\ NoExecute
    /\ plan_in \in PlanInputs
    /\ plan_out = <<>>

NextPlan ==
    \/ BuildPlan

SpecPlan == InitPlan /\ [][NextPlan]_vars

--------------------------------------------------------------------------

(* workflow_runtime/app.py: execute_workflow, the entrypoint of the         *)
(* workflow execution agent                                                 *)

\* The values a request holds: a list, a dict, and a string, which is the
\* JSON text of a value (dumps holds the value) or no JSON at all.
JList(items) == [type |-> "list", items |-> items]

JDict(value) == [type |-> "dict", value |-> value]

JText(text) == [type |-> "str", text |-> text, dumps |-> <<>>]

\* json.dumps(value)
JsonDumps(value) == [type |-> "str", text |-> "json", dumps |-> <<value>>]

WfEc2 ==
    [resource_type |-> "EC2", instance_id |-> "i-9",
     current_instance_type |-> "m5.large",
     recommended_instance_type |-> "t3.small"]

WfS3 == [resource_type |-> "S3", bucket_name |-> "bucket-1"]

WorkflowRecLists == {<<>>, <<WfEc2>>, <<WfS3>>, <<WfEc2, WfS3>>}

\* What a request can carry as goal, prompt or input.
UserInputs ==
    {JsonDumps(JList(recs)) : recs \in WorkflowRecLists}
    \cup {JsonDumps(JDict([recommendations |-> recs])) : recs \in {<<>>, <<WfEc2>>}}
    \cup {JsonDumps(JDict([note |-> "optimize"]))}
    \cup {JText(""), JText("optimize my account")}
    \cup {JList(recs) : recs \in {<<>>, <<WfS3>>}}

\* The requests: the handler of the API sends the JSON text of the
\* recommendations as goal; other callers use prompt or input.
WorkflowRequests ==
    {[goal |-> u] : u \in UserInputs}
    \cup {[prompt |-> JsonDumps(JList(<<WfEc2>>))],
          [goal |-> JText(""), input |-> JsonDumps(JList(<<WfS3>>))],
          EmptyDict}

\* Python's truth value of a value of a request.
JTruthy(v) ==
    CASE v.type = "str" -> v.text # ""
      [] v.type = "list" -> v.items # <<>>
      [] OTHER -> TRUE

\* Line 389: request.get("goal") or request.get("prompt") or
\* request.get("input") or ""
UserInput(request) ==
    LET Holds(key) == key \in DOMAIN request /\ JTruthy(request[key])
    IN IF Holds("goal") THEN request.goal
       ELSE IF Holds("prompt") THEN request.prompt
       ELSE IF Holds("input") THEN request.input
       ELSE JText("")

\* Lines 392-403: the recommendations read from the input; json.loads
\* raises JSONDecodeError on a text that is no JSON, which leaves the list
\* empty.
ParsedRecommendations(user_input) ==
    IF user_input.type = "str"
    THEN IF user_input.dumps = <<>> THEN <<>>
         ELSE LET parsed == user_input.dumps[1]
              IN IF parsed.type = "list" THEN parsed.items
                 ELSE IF parsed.type = "dict" /\ "recommendations" \in DOMAIN parsed.value
                 THEN parsed.value.recommendations
                 ELSE <<>>
    ELSE IF user_input.type = "list" THEN user_input.items
    ELSE <<>>

\* Line 427: instance_type.split('.')[0]
RECURSIVE UpToDot(_)
UpToDot(chars) ==
    IF chars = <<>> \/ Head(chars) = "." THEN <<>>
    ELSE <<Head(chars)>> \o UpToDot(Tail(chars))

\* Lines 422, 429: the family is one of r5, m5, c5, t2.
DisallowedFamily(instance_type) ==
    UpToDot(Chars(instance_type))
        \in {<<"r", "5">>, <<"m", "5">>, <<"c", "5">>, <<"t", "2">>}

\* Lines 423-438: a recommendation for every running instance of a flagged
\* family.
RECURSIVE FetchedRecommendations(_)
FetchedRecommendations(instances) ==
    IF instances = <<>> THEN <<>>
    ELSE (IF DisallowedFamily(Head(instances).InstanceType)
          THEN <<[resource_type |-> "EC2",
                  instance_id |-> Head(instances).InstanceId,
                  current_instance_type |-> Head(instances).InstanceType,
                  recommended_instance_type |-> "t3.medium",
                  estimated_monthly_savings |-> "$50.00",
                  reason |-> "Policy violation - disallowed instance family"]>>
          ELSE <<>>)
         \o FetchedRecommendations(Tail(instances))

\* Line 408: if not recommendations
NeedsFetch(recommendations) == recommendations = <<>>

\* The calls of the tools the system prompt prescribes for a recommendation
\* (lines 456-460): the mutating ones, in order.
ToolUse(rec) ==
    LET On(tool, resource) == [op |-> tool, resource |-> resource]
    IN CASE rec.resource_type = "EC2" ->
              <<On("ec2_stop_instance", rec.instance_id),
                On("ec2_modify_instance_type", rec.instance_id),
                On("ec2_start_instance", rec.instance_id)>>
         [] rec.resource_type = "S3" ->
              <<On("s3_put_lifecycle_policy", rec.bucket_name)>>
         [] OTHER -> <<>>

WorkflowLocals == [recommendations |-> <<>>, prompt |-> <<>>, done |-> 0]

\* Lines 386-406: the input is read and parsed.
WorkflowParse ==
    /\ wf_pc = "parse"
    /\ LET recommendations == ParsedRecommendations(UserInput(wf_in))
       IN /\ wf' = [wf EXCEPT !.recommendations = recommendations]
          /\ wf_pc' = IF NeedsFetch(recommendations) THEN "fetch" ELSE "prompt"
    /\ UNCHANGED <<wf_in, wf_calls, wf_result>>
    /\ UNCHANGED exceptWorkflow

\* Lines 408-453: without recommendations the entrypoint lists the running
\* instances itself; describe_instances raises or returns.
WorkflowFetch ==
    /\ wf_pc = "fetch"
    /\ \E response \in DescribeInstancesResponses :
         /\ wf_calls' = Append(wf_calls, [op |-> "describe_instances",
                                          resource |-> None])
         /\ IF response.raised
            THEN /\ wf_pc' = "done"
                 /\ wf_result' = <<[status |-> "failed",
                                    message |-> "No recommendations provided and failed to fetch",
                                    results |-> <<>>]>>
                 /\ UNCHANGED wf
            ELSE LET recommendations == FetchedRecommendations(response.value)
                 IN /\ wf' = [wf EXCEPT !.recommendations = recommendations]
                    /\ IF recommendations = <<>>
                       THEN /\ wf_pc' = "done"
                            /\ wf_result' = <<[status |-> "success",
                                               message |-> "No optimization recommendations found. All resources are compliant.",
                                               results |-> <<>>]>>
                       ELSE /\ wf_pc' = "prompt"
                            /\ UNCHANGED wf_result
    /\ UNCHANGED wf_in
    /\ UNCHANGED exceptWorkflow

\* Lines 455-471: the prompt holds the recommendations and the agent is
\* called with it.
WorkflowPrompt ==
    /\ wf_pc = "prompt"
    /\ wf' = [wf EXCEPT !.prompt = <<wf.recommendations>>]
    /\ wf_pc' = "agent"
    /\ UNCHANGED <<wf_in, wf_calls, wf_result>>
    /\ UNCHANGED exceptWorkflow

\* agent(prompt), line 471: the agent takes up the next recommendation of
\* its prompt and uses the tools for it, or leaves it out.
AgentExecutes ==
    /\ wf_pc = "agent"
    /\ wf.done < Len(wf.prompt[1])
    /\ \E uses \in BOOLEAN :
         wf_calls' = wf_calls \o (IF uses THEN ToolUse(wf.prompt[1][wf.done + 1])
                                  ELSE <<>>)
    /\ wf' = [wf EXCEPT !.done = @ + 1]
    /\ UNCHANGED <<wf_pc, wf_in, wf_result>>
    /\ UNCHANGED exceptWorkflow

\* Lines 472-491: the agent returns its report or raises.
WorkflowReturn ==
    /\ wf_pc = "agent"
    /\ \E raises \in BOOLEAN :
         /\ ~ raises => wf.done = Len(wf.prompt[1])
         /\ wf_result' =
              IF raises
              THEN <<[status |-> "failed", message |-> "Workflow execution failed"]>>
              ELSE <<[status |-> "success",
                      recommendations_processed |-> Len(wf.recommendations)]>>
    /\ wf_pc' = "done"
    /\ UNCHANGED <<wf_in, wf, wf_calls>>
    /\ UNCHANGED exceptWorkflow

InitWorkflow ==
    /\ NoService
    /\ NoPolicy
    /\ NoCollect
    /\ NoAnalysis
    /\ NoExecutor
    /\ NoPlan
    /\ NoPaginate
    /\ NoExecute
    /\ wf_pc = "parse"
    /\ wf_in \in WorkflowRequests
    /\ wf = WorkflowLocals
    /\ wf_calls = <<>>
    /\ wf_result = <<>>

NextWorkflow ==
    \/ WorkflowParse
    \/ WorkflowFetch
    \/ WorkflowPrompt
    \/ AgentExecutes
    \/ WorkflowReturn

SpecWorkflow == InitWorkflow /\ [][NextWorkflow]_vars

--------------------------------------------------------------------------

(* services/recommendations.py: _paginate_recommendations                   *)

\* The rows of a page and the tokens the service hands out.
PageRows == {"row-a", "row-b"}

Pages == SeqsUpTo(PageRows, 2)

NextTokens == {None, "token-1", "token-2"}

\* What a request is answered with: a page and the token of the next one,
\* None on the last page.
PageResponses == {[rows |-> rows, nextToken |-> t] : rows \in Pages, t \in NextTokens}

\* The limits of the callers.
PageLimits == 0..MaxLimit

\* collected[:limit], limit not negative
FirstRows(collected, limit) ==
    SubSeq(collected, 1, IF limit < Len(collected) THEN limit ELSE Len(collected))

\* Lines 116-118: request_args
RequestArgs(limit, next_token) ==
    IF Truthy(next_token)
    THEN [maxResults |-> IF limit < 100 THEN limit ELSE 100, nextToken |-> next_token]
    ELSE [maxResults |-> IF limit < 100 THEN limit ELSE 100]

\* Line 124: if not next_token or len(collected) >= limit: break
LoopBreaks(response, next_token, collected, limit) ==
    ~ Truthy(next_token) \/ Len(collected) >= limit

PaginateLocals == [collected |-> <<>>, next_token |-> None]

\* Lines 115-127: one pass of the loop whose request is answered, and the
\* return when the pass ends the loop.
PaginateRequest ==
    /\ pag_pc = "loop"
    /\ \E response \in PageResponses :
         LET collected == pag.collected \o response.rows
             next_token == response.nextToken
             breaks == LoopBreaks(response, next_token, collected, pag_in.limit)
         IN /\ pag_request' = <<RequestArgs(pag_in.limit, pag.next_token)>>
            /\ pag' = [collected |-> collected, next_token |-> next_token]
            /\ pag_pc' = IF breaks THEN "returned" ELSE "loop"
            /\ pag_result' = IF breaks THEN <<FirstRows(collected, pag_in.limit)>>
                             ELSE pag_result
    /\ UNCHANGED pag_in
    /\ UNCHANGED exceptPaginate

\* Line 121: the request raises, and so does the function.
PaginateRaises ==
    /\ pag_pc = "loop"
    /\ pag_request' = <<RequestArgs(pag_in.limit, pag.next_token)>>
    /\ pag_pc' = "raised"
    /\ UNCHANGED <<pag_in, pag, pag_result>>
    /\ UNCHANGED exceptPaginate

InitPaginate ==
    /\ NoService
    /\ NoPolicy
    /\ NoCollect
    /\ NoAnalysis
    /\ NoExecutor
    /\ NoPlan
    /\ NoWorkflow
    /\ NoExecute
    /\ pag_pc = "loop"
    /\ pag_in \in {[limit |-> limit] : limit \in PageLimits}
    /\ pag = PaginateLocals
    /\ pag_request = <<>>
    /\ pag_result = <<>>

NextPaginate ==
    \/ PaginateRequest
    \/ PaginateRaises

\* A request is answered or raises: the function does not stop between two
\* requests.
SpecPaginate == InitPaginate /\ [][NextPaginate]_vars /\ WF_vars(NextPaginate)

--------------------------------------------------------------------------

(* app.py: execute_workflow, the handler of POST /v1/execute-workflow       *)

\* The run the handler starts in process: the first one.
EwRun == CHOOSE r \in RunIds : \A q \in RunIds : r <= q

\* The requests: a body that request.json() cannot parse, and bodies with
\* a list of recommendations.
ExecuteRequests ==
    {[body_ok |-> FALSE, recommendations |-> <<>>]}
    \cup {[body_ok |-> TRUE, recommendations |-> recs] : recs \in ApiRecLists}

\* What requests.post comes back with: it raises (no connection, timeout),
\* or the workflow agent answers with a status; json_ok says whether
\* response.json() parses the answer.
PostAnswers ==
    {[raised |-> TRUE, status_code |-> 0, json_ok |-> FALSE]}
    \cup {[raised |-> FALSE, status_code |-> c, json_ok |-> j] :
             c \in {200, 500, 503}, j \in BOOLEAN}

\* Lines 147-152: the body posted to the workflow agent
PostedBody(recommendations) ==
    [url |-> "/invocations", json |-> [recommendations |-> recommendations]]

\* Lines 155-160
WorkflowResponse == [status_code |-> 200, brand |-> "BrickwatchWorkflow"]

\* Lines 172-181
RunnerResponse ==
    [status_code |-> 200, brand |-> "Brickwatch",
     action |-> "optimize_existing_instances"]

\* Lines 183-185
WorkflowFailedResponse == [status_code |-> 500, code |-> "workflow_failed"]

\* Mutation of FallsThrough: an answer other than 200 ends the request.
FallsThroughNever(answer) == FALSE

\* Lines 154-162: an answer with another status than 200 is logged and the
\* handler goes on to the fallback.
FallsThrough(answer) == answer.status_code # 200

(* Lines 164-170: the fallback.  _strand_runner raises without the runner; *)
(* otherwise runner.run is called with the recommendations of the request. *)
Fallback(recommendations) ==
    IF STRANDS_AVAILABLE
    THEN /\ ew_run' = <<[recommendations |-> recommendations]>>
         /\ action' = [action EXCEPT ![EwRun] = "optimize_existing_instances"]
         /\ step_context' = [step_context EXCEPT ![EwRun] =
                                [recommendations |-> recommendations]]
         /\ pc' = [pc EXCEPT ![EwRun] = "pending"]
         /\ ew_pc' = "running"
         /\ UNCHANGED ew_response
    ELSE /\ ew_pc' = "done"
         /\ ew_response' = <<WorkflowFailedResponse>>
         /\ UNCHANGED <<ew_run, action, step_context, pc>>

\* Lines 134-152, and 164-170 without an endpoint: the body is read; with
\* an endpoint the recommendations are posted to it.
ExecuteWorkflowBegin ==
    /\ ew_pc = "start"
    /\ IF ~ ew_request.body_ok
       THEN /\ ew_pc' = "done"
            /\ ew_response' = <<WorkflowFailedResponse>>
            /\ UNCHANGED <<ew_posted, ew_run, action, step_context, pc>>
       ELSE IF Truthy(WORKFLOW_AGENT_ENDPOINT)
       THEN /\ ew_posted' = <<PostedBody(ew_request.recommendations)>>
            /\ ew_pc' = "posted"
            /\ UNCHANGED <<ew_response, ew_run, action, step_context, pc>>
       ELSE /\ Fallback(ew_request.recommendations)
            /\ UNCHANGED ew_posted
    /\ UNCHANGED <<WORKFLOW_AGENT_ENDPOINT, STRANDS_AVAILABLE, ew_request, ew_answer>>
    /\ UNCHANGED <<stepIdx, k, acc, total_savings, executed, workflow_results, calls>>
    /\ UNCHANGED exceptExecute

\* Lines 147-170: requests.post returns or raises.
EndpointAnswers ==
    /\ ew_pc = "posted"
    /\ \E answer \in PostAnswers :
         /\ ew_answer' = <<answer>>
         /\ IF answer.raised \/ (answer.status_code = 200 /\ ~ answer.json_ok)
            THEN /\ ew_pc' = "done"
                 /\ ew_response' = <<WorkflowFailedResponse>>
                 /\ UNCHANGED <<ew_run, action, step_context, pc>>
            ELSE IF FallsThrough(answer)
            THEN Fallback(ew_request.recommendations)
            ELSE /\ ew_pc' = "done"
                 /\ ew_response' = <<WorkflowResponse>>
                 /\ UNCHANGED <<ew_run, action, step_context, pc>>
    /\ UNCHANGED <<WORKFLOW_AGENT_ENDPOINT, STRANDS_AVAILABLE, ew_request, ew_posted>>
    /\ UNCHANGED <<stepIdx, k, acc, total_savings, executed, workflow_results, calls>>
    /\ UNCHANGED exceptExecute

\* Lines 172-181: runner.run returned.
ExecuteWorkflowReturn ==
    /\ ew_pc = "running"
    /\ pc[EwRun] = "done"
    /\ ew_pc' = "done"
    /\ ew_response' = <<RunnerResponse>>
    /\ UNCHANGED <<WORKFLOW_AGENT_ENDPOINT, STRANDS_AVAILABLE, ew_request, ew_posted,
                   ew_answer, ew_run>>
    /\ UNCHANGED runVars
    /\ UNCHANGED exceptExecute

InitExecute ==
    /\ NoService
    /\ NoPolicy
    /\ NoCollect
    /\ NoAnalysis
    /\ NoExecutor
    /\ NoPlan
    /\ NoWorkflow
    /\ NoPaginate
    /\ WORKFLOW_AGENT_ENDPOINT \in {None, "http://workflow-agent"}
    /\ STRANDS_AVAILABLE \in BOOLEAN
    /\ ew_pc = "start"
    /\ ew_request \in ExecuteRequests
    /\ ew_posted = <<>>
    /\ ew_answer = <<>>
    /\ ew_run = <<>>
    /\ ew_response = <<>>

NextExecute ==
    \/ ExecuteWorkflowBegin
    \/ EndpointAnswers
    \/ ExecuteWorkflowReturn
    \/ Next

SpecExecute == InitExecute /\ [][NextExecute]_vars

--------------------------------------------------------------------------

(* Properties: helpers *)

\* The positions of a run inside apply_rightsizing's loop.
ApplyPositions ==
    {"stop_instances", "wait_stopped", "modify_instance_attribute",
     "start_instances", "wait_running"}

\* The applied-change records of run r so far: the list under construction
\* while apply_rightsizing runs, its result in the context afterwards.
AppliedSoFar(r) ==
    IF pc[r] \in ApplyPositions THEN acc[r]
    ELSE Get(step_context[r], "applied_changes", <<>>)

\* The calls of apply_rightsizing in run r's call log.
ApplyCallsOf(r) == SelectSeq(calls[r], LAMBDA c : c.op \in ApplyPositions)

\* Index j of the log is a re-read of verify_optimization: a lookup issued
\* after some call of apply_rightsizing.
IsVerifyIdx(cs, j) ==
    /\ cs[j].op = "describe_instances"
    /\ \E a \in 1..(j - 1) : cs[a].op \in ApplyPositions

\* The lookups of validate_recommendations: those before any apply call.
ValidateLookups(r) ==
    LET cs == calls[r]
        idx == {j \in 1..Len(cs) : cs[j].op = "describe_instances" /\ ~IsVerifyIdx(cs, j)}
    IN SubSeq(cs, 1, Cardinality(idx))

\* The re-reads of verify_optimization.
VerifyLookups(r) ==
    LET cs == calls[r]
        idx == {j \in 1..Len(cs) : IsVerifyIdx(cs, j)}
    IN SubSeq(cs, Len(cs) - Cardinality(idx) + 1, Len(cs))

StepReturned(r, name) == name \in DOMAIN workflow_results[r]

--------------------------------------------------------------------------
(* C1: in every run of the workflow runner the executed steps are a prefix *)
(* of the action's blueprint, in order and without repetition; a step that *)
(* returns status failed is the last one executed, the run then ends with   *)
(* status failed and a message naming that step; and a finished run has     *)
(* status completed exactly when every blueprint step was executed and none *)
(* returned failed.                                                        *)
C1_RunnerFailFast ==
    \A r \in RunIds :
        LET bp == Blueprint(r)
            ex == executed[r]
            wr == workflow_results[r]
            FailedAt(i) == ex[i] \in DOMAIN wr /\ Get(wr[ex[i]], "status", None) = "failed"
        IN /\ Len(ex) <= Len(bp)
           /\ \A i \in 1..Len(ex) : ex[i] = bp[i]
           /\ \A i, j \in 1..Len(ex) : ex[i] = ex[j] => i = j
           /\ \A i \in 1..Len(ex) : FailedAt(i) =>
                /\ i = Len(ex)
                /\ pc[r] = "done"
                /\ wr.status = "failed"
                /\ wr.message.arg = ex[i]
           /\ pc[r] = "done" =>
                /\ wr.status \in {"failed", "completed"}
                /\ wr.status = "completed" <=>
                     (Len(ex) = Len(bp) /\ \A i \in 1..Len(ex) : ~FailedAt(i))
           /\ pc[r] # "done" => "status" \notin DOMAIN wr

\* A run that failed at its middle step: verify_optimization never ran.
C1_Witness ==
    \E r \in RunIds :
        /\ pc[r] = "done"
        /\ executed[r] = <<"validate_recommendations", "apply_rightsizing">>
        /\ workflow_results[r].status = "failed"
        /\ workflow_results[r].message.arg = "apply_rightsizing"

--------------------------------------------------------------------------
(* C2: in apply_rightsizing the calls on an instance are issued in the     *)
(* order stop_instances, wait-until-stopped, modify_instance_attribute,    *)
(* start_instances, wait-until-running: each call but the stop directly    *)
(* follows the successful return of its predecessor on the same instance,  *)
(* so modify is never issued before the stopped-wait returned, and the     *)
(* success records are exactly the instances whose running-wait returned.  *)
C2_Predecessor(op) ==
    CASE op = "wait_stopped" -> "stop_instances"
      [] op = "modify_instance_attribute" -> "wait_stopped"
      [] op = "start_instances" -> "modify_instance_attribute"
      [] op = "wait_running" -> "start_instances"

C2_ApplyCallOrder ==
    \A r \in RunIds :
        LET cs == calls[r]
            succ == SelectSeq(AppliedSoFar(r), LAMBDA c : c.status = "success")
            ran == SelectSeq(cs, LAMBDA c : c.op = "wait_running" /\ c.outcome = "ok")
        IN /\ \A j \in 1..Len(cs) :
                cs[j].op \in ApplyPositions \ {"stop_instances"} =>
                    /\ j > 1
                    /\ cs[j - 1].op = C2_Predecessor(cs[j].op)
                    /\ cs[j - 1].id = cs[j].id
                    /\ cs[j - 1].outcome = "ok"
           /\ Len(succ) = Len(ran)
           /\ \A n \in 1..Len(succ) : succ[n].instance_id = ran[n].id

\* An instance went through all five calls and got its success record.
C2_Witness ==
    \E r \in RunIds :
        /\ Len(calls[r]) >= 5
        /\ \E n \in 1..Len(AppliedSoFar(r)) : AppliedSoFar(r)[n].status = "success"

--------------------------------------------------------------------------
(* C3: in apply_rightsizing every failing call (stop, modify, start, or a  *)
(* wait that raises after at most 30 attempts at 10 s) gives its instance   *)
(* exactly one failed record carrying the error, the step still returns    *)
(* its normal result, and that result holds one record per validated       *)
(* recommendation, in input order.                                         *)
C3_ApplyIsolatesFailures ==
    \A r \in RunIds :
        LET validated == Get(step_context[r], "validated_recommendations", <<>>)
            changes == AppliedSoFar(r)
            failedCalls == SelectSeq(ApplyCallsOf(r), LAMBDA c : c.outcome # "ok")
            failedRecs == SelectSeq(changes, LAMBDA c : c.status = "failed")
        IN /\ Len(failedRecs) = Len(failedCalls)
           /\ \A n \in 1..Len(failedRecs) :
                /\ failedRecs[n].instance_id = failedCalls[n].id
                /\ failedRecs[n].error = failedCalls[n].outcome
           /\ \A n \in 1..Len(ApplyCallsOf(r)) :
                LET c == ApplyCallsOf(r)[n]
                IN c.op \in {"wait_stopped", "wait_running"} =>
                      c.cfg.Delay = 10 /\ c.cfg.MaxAttempts = 30
           /\ Len(changes) <= Len(validated)
           /\ \A n \in 1..Len(changes) :
                /\ changes[n].instance_id = validated[n].instance_id
                /\ changes[n].status \in {"success", "failed"}
           /\ StepReturned(r, "apply_rightsizing") =>
                /\ "applied_changes" \in DOMAIN workflow_results[r]["apply_rightsizing"]
                /\ workflow_results[r]["apply_rightsizing"].applied_changes = changes
                /\ Len(changes) = Len(validated)

\* The first instance failed on a wait that raised, and the second instance
\* was still processed.
C3_Witness ==
    \E r \in RunIds :
        /\ StepReturned(r, "apply_rightsizing")
        /\ Len(AppliedSoFar(r)) = 2
        /\ AppliedSoFar(r)[1].status = "failed"
        /\ AppliedSoFar(r)[1].error = "WaiterError"
        /\ AppliedSoFar(r)[2].status = "success"

--------------------------------------------------------------------------
(* C4: validate_recommendations returns as validated exactly the input     *)
(* recommendations that carry an instance id, a current type and a         *)
(* recommended type and whose instance the lookup found running, each with *)
(* the type the lookup reported; and valid + skipped = total.              *)
C4_Carries(rec) ==
    /\ rec.instance_id # None \/ rec.instanceId # None
    /\ rec.current_instance_type # None \/ rec.currentType # None
    /\ rec.recommended_instance_type # None \/ rec.recommendedType # None

C4_IdOf(rec) == IF rec.instance_id # None THEN rec.instance_id ELSE rec.instanceId

\* The recommendations that qualify, given the lookups made, in input order.
RECURSIVE C4_Expected(_, _)
C4_Expected(recs, lookups) ==
    IF recs = <<>> THEN <<>>
    ELSE IF ~C4_Carries(Head(recs)) THEN C4_Expected(Tail(recs), lookups)
    ELSE IF lookups = <<>> THEN <<>>
    ELSE IF Head(lookups).seen.kind = "found" /\ Head(lookups).seen.state = "running"
         THEN <<[id |-> C4_IdOf(Head(recs)), type |-> Head(lookups).seen.type]>>
              \o C4_Expected(Tail(recs), Tail(lookups))
         ELSE C4_Expected(Tail(recs), Tail(lookups))

C4_ValidatedExactly ==
    \A r \in RunIds :
        StepReturned(r, "validate_recommendations") =>
            LET res == workflow_results[r]["validate_recommendations"]
                validated == Get(res, "validated_recommendations", <<>>)
                expected == C4_Expected(step_context[r].recommendations, ValidateLookups(r))
            IN /\ Len(validated) = Len(expected)
               /\ \A n \in 1..Len(validated) :
                    /\ validated[n].instance_id = expected[n].id
                    /\ validated[n].current_instance_type = expected[n].type
               /\ "total_recommendations" \in DOMAIN res =>
                    res.valid_recommendations + res.skipped_recommendations
                        = res.total_recommendations

--------------------------------------------------------------------------
(* C5: verify_optimization emits one verification record per applied       *)
(* change, in order: skipped exactly for the changes whose apply status is *)
(* failed, which are not re-read; for the others success exactly when the  *)
(* re-read shows the instance running with the change's target type,       *)
(* failed when it shows another state or type, and error when the re-read  *)
(* raises.                                                                 *)
C5_VerifiedSoFar(r) ==
    IF pc[r] = "verify" THEN acc[r]
    ELSE Get(step_context[r], "verification_results", <<>>)

\* The applied changes verify_optimization has dealt with so far.
C5_ChangesSeen(r) ==
    LET changes == Get(step_context[r], "applied_changes", <<>>)
    IN IF pc[r] = "verify" THEN SubSeq(changes, 1, k[r] - 1)
       ELSE IF StepReturned(r, "verify_optimization") THEN changes
       ELSE <<>>

C5_VerificationClassified ==
    \A r \in RunIds :
        LET changes == C5_ChangesSeen(r)
            records == C5_VerifiedSoFar(r)
            reread == SelectSeq(changes, LAMBDA c : c.status # "failed")
            lookups == VerifyLookups(r)
            \* the position among the re-reads of the n-th change
            At(n) == Len(SelectSeq(SubSeq(changes, 1, n), LAMBDA c : c.status # "failed"))
        IN /\ Len(records) = Len(changes)
           /\ Len(lookups) = Len(reread)
           /\ \A n \in 1..Len(lookups) : lookups[n].id = reread[n].instance_id
           /\ \A n \in 1..Len(records) :
                LET st == records[n].verification_status
                IN /\ records[n].instance_id = changes[n].instance_id
                   /\ st \in {"skipped", "success", "failed", "error"}
                   /\ st = "skipped" <=> changes[n].status = "failed"
                   /\ changes[n].status # "failed" =>
                        LET seen == lookups[At(n)].seen
                            raised == lookups[At(n)].outcome \in {"empty", "client_error", "error"}
                        IN /\ st = "success" <=>
                                (seen.kind = "found" /\ seen.state = "running"
                                 /\ seen.type = changes[n].to)
                           /\ (seen.kind = "found"
                               /\ ~(seen.state = "running" /\ seen.type = changes[n].to))
                                => st = "failed"
                           /\ raised => st = "error"

\* A finished verification with a skipped and a failed record: the first
\* change failed to apply, the second was applied but re-read as stopped.
C5_Witness ==
    \E r \in RunIds :
        /\ StepReturned(r, "verify_optimization")
        /\ Len(C5_VerifiedSoFar(r)) = 2
        /\ C5_VerifiedSoFar(r)[1].verification_status = "skipped"
        /\ C5_VerifiedSoFar(r)[2].verification_status = "failed"
        /\ C5_VerifiedSoFar(r)[2].instance_state = "stopped"

--------------------------------------------------------------------------
(* C10 as stated: within one run, no call for another resource is issued   *)
(* between a resource's stop call and that resource's verification.        *)
C10_SequencePerResource ==
    \A r \in RunIds :
        LET cs == calls[r]
        IN \A a, c \in 1..Len(cs) :
            ( /\ a < c
              /\ cs[a].op = "stop_instances"
              /\ IsVerifyIdx(cs, c)
              /\ cs[c].id = cs[a].id )
            => \A b \in (a + 1)..(c - 1) : cs[b].id = cs[a].id

(* C10 amended: within one run, each resource's stop, wait-until-stopped,  *)
(* modify, start, wait-until-running sequence runs to its end (its last    *)
(* call or its first failing call) before any call for the next resource   *)
(* is issued, and the re-reads of verify_optimization are issued only      *)
(* after the apply sequences of all resources have ended.                  *)
C10_SequenceOpen(c) ==
    c.op \in ApplyPositions /\ c.outcome = "ok" /\ c.op # "wait_running"

C10_ApplyThenVerify ==
    \A r \in RunIds :
        LET cs == calls[r]
        IN /\ \A j \in 1..(Len(cs) - 1) :
                C10_SequenceOpen(cs[j]) =>
                    /\ cs[j + 1].id = cs[j].id
                    /\ cs[j + 1].op \in ApplyPositions \ {"stop_instances"}
           /\ \A j \in 1..Len(cs) :
                (cs[j].op \in ApplyPositions /\ ~C10_SequenceOpen(cs[j]) /\ j < Len(cs)) =>
                    cs[j + 1].op \in {"stop_instances", "describe_instances"}
           /\ \A c \in 1..Len(cs) :
                IsVerifyIdx(cs, c) => \A b \in (c + 1)..Len(cs) : cs[b].op = "describe_instances"

\* Two different instances were applied and the first was then verified: the
\* second instance's calls lie between the first one's stop and its re-read.
C10_Witness ==
    \E r \in RunIds :
        LET cs == calls[r]
        IN \E a, b, c \in 1..Len(cs) :
            /\ a < b /\ b < c
            /\ cs[a].op = "stop_instances"
            /\ cs[b].op = "stop_instances"
            /\ cs[b].id # cs[a].id
            /\ IsVerifyIdx(cs, c)
            /\ cs[c].id = cs[a].id

--------------------------------------------------------------------------
(* Properties of the service: helpers *)

Answered(q) == responses[q] # <<>>

\* The request carries a bearer token: a non-empty text after "Bearer ".
CarriesToken(event) == BearerToken(event.authorization) \notin {None, ""}

\* payload is the asynchronous self-invocation of request q: the marker, the
\* submitted recommendations, the token, the execution id of the response.
OwnPayload(q, payload) ==
    /\ payload._async_workflow = TRUE
    /\ payload.recommendations = requests[q][1].recommendations
    /\ payload.bearer_token = BearerToken(requests[q][1].authorization)
    /\ payload.execution_id = responses[q][1].execution_id

DispatchedOnce(q) == Len(dispatched[q]) = 1 /\ OwnPayload(q, dispatched[q][1])

\* One step of the run of execution r.
RunStep(r) ==
    \/ RunViaStrands(r)
    \/ ExecuteWorkflowStep(r)
    \/ ValidateRec(r)
    \/ ValidateReturn(r)
    \/ ApplyCall(r)
    \/ ApplyReturn(r)
    \/ VerifyChange(r)
    \/ VerifyReturn(r)

--------------------------------------------------------------------------
(* C6 as stated: every submit to POST /v1/automation with a configured     *)
(* execution target and a bearer token returns 202 with status accepted /  *)
(* in_progress, an execution_id and recommendations_processed equal to the *)
(* number of submitted recommendations, and a submit returns 202 if and    *)
(* only if exactly one asynchronous self-invocation with the marker, the   *)
(* same recommendations, the token and the same execution_id was issued.   *)
C6_SubmitReturns202 ==
    \A q \in RunIds :
        Answered(q) =>
            LET req == requests[q][1]
                resp == responses[q][1]
            IN /\ (req.body_ok /\ TargetConfigured /\ CarriesToken(req)) =>
                    /\ resp.status_code = 202
                    /\ resp.status = "accepted"
                    /\ resp.result_status = "in_progress"
                    /\ resp.execution_id > 0
                    /\ resp.recommendations_processed = Len(req.recommendations)
               /\ resp.status_code = 202 <=> DispatchedOnce(q)

(* C6 amended: a submit with a configured target and a bearer token        *)
(* returns 202, or 500 when building the plan or the self-invocation       *)
(* raised; a 202 carries status accepted / in_progress, an execution_id    *)
(* and the number of submitted recommendations; a submit returns 202 if    *)
(* and only if exactly one self-invocation with the marker, the same       *)
(* recommendations, the token and the same execution_id was issued, and    *)
(* any other answer has issued none; the answer is given before the        *)
(* execution has begun, so no outcome of it is waited for.                 *)
C6_SubmitDispatchesOnce ==
    \A q \in RunIds :
        /\ Answered(q) =>
            LET req == requests[q][1]
                resp == responses[q][1]
            IN /\ (req.body_ok /\ TargetConfigured /\ CarriesToken(req)) =>
                    /\ resp.status_code \in {202, 500}
                    /\ ~PlanBuilds(req.recommendations) => resp.status_code = 500
               /\ resp.status_code = 202 =>
                    /\ req.body_ok /\ TargetConfigured /\ CarriesToken(req)
                    /\ resp.status = "accepted"
                    /\ resp.result_status = "in_progress"
                    /\ resp.execution_id > 0
                    /\ resp.recommendations_processed = Len(req.recommendations)
               /\ resp.status_code = 202 <=> DispatchedOnce(q)
               /\ resp.status_code # 202 => dispatched[q] = <<>>
        /\ ~Answered(q) => dispatched[q] = <<>>
        /\ (async_event[q] # <<>> \/ async_result[q] # <<>>) => Answered(q)

\* A submit was answered 202 with its execution queued and not yet begun.
C6_Witness ==
    \E q \in RunIds :
        /\ Answered(q)
        /\ responses[q][1].status_code = 202
        /\ responses[q][1].recommendations_processed = 1
        /\ DispatchedOnce(q)
        /\ async_event[q] = <<>>

--------------------------------------------------------------------------
(* C7 as stated, for requests whose body parses: the answer is 401         *)
(* whenever the request carries no bearer token and 503 whenever no        *)
(* execution target is configured, and neither case dispatches.            *)
C7_Rejects401And503 ==
    \A q \in RunIds :
        (Answered(q) /\ requests[q][1].body_ok) =>
            /\ ~CarriesToken(requests[q][1]) => responses[q][1].status_code = 401
            /\ ~TargetConfigured => responses[q][1].status_code = 503
            /\ (~CarriesToken(requests[q][1]) \/ ~TargetConfigured) => dispatched[q] = <<>>

(* C7 amended: for a request whose body parses, the answer is 503 whenever *)
(* no execution target is configured (the endpoint parameter is unreadable *)
(* or the AgentCore client is missing), with or without a token, and 401   *)
(* whenever a target is configured and the request carries no bearer       *)
(* token; in neither case is an asynchronous execution dispatched.         *)
C7_TargetCheckedBeforeToken ==
    \A q \in RunIds :
        (Answered(q) /\ requests[q][1].body_ok) =>
            /\ ~TargetConfigured => responses[q][1].status_code = 503
            /\ (TargetConfigured /\ ~CarriesToken(requests[q][1])) =>
                    responses[q][1].status_code = 401
            /\ responses[q][1].status_code \in {401, 503} =>
                    (~CarriesToken(requests[q][1]) \/ ~TargetConfigured)
            /\ (~CarriesToken(requests[q][1]) \/ ~TargetConfigured) =>
                    /\ dispatched[q] = <<>>
                    /\ async_event[q] = <<>>

\* A request without a token was answered 503 because no target is configured.
C7_Witness ==
    \E q \in RunIds :
        /\ Answered(q)
        /\ requests[q][1].body_ok
        /\ requests[q][1].authorization = ""
        /\ ~TargetConfigured
        /\ responses[q][1].status_code = 503
        /\ dispatched[q] = <<>>

--------------------------------------------------------------------------
(* C8: handler called with an event carrying the _async_workflow marker    *)
(* never raises: whatever the workflow-agent invocation does, it returns   *)
(* statusCode 200 with status completed or statusCode 500 with status      *)
(* failed, carrying the execution_id of the event; an event without the    *)
(* marker is never handled as a workflow execution and is answered by the  *)
(* HTTP application.                                                       *)
C8_AsyncHandlesOwnErrors ==
    \A q \in RunIds :
        /\ async_result[q] # <<>> =>
            LET res == async_result[q][1]
            IN /\ async_event[q] # <<>>
               /\ ~res.raised
               /\ \/ res.statusCode = 200 /\ res.status = "completed"
                  \/ res.statusCode = 500 /\ res.status = "failed"
               /\ res.execution_id = async_event[q][1].execution_id
               /\ res.execution_id = dispatched[q][1].execution_id
        /\ async_event[q] # <<>> =>
            /\ async_event[q][1]._async_workflow = TRUE
            /\ async_event[q] = dispatched[q]
        /\ requests[q] # <<>> =>
            /\ requests[q][1]._async_workflow = FALSE
            /\ Answered(q)

\* The invocation of the workflow agent raised and handler returned its
\* failed result with the execution id of the submit.
C8_Witness ==
    \E q \in RunIds :
        /\ async_result[q] # <<>>
        /\ async_result[q][1].statusCode = 500
        /\ async_result[q][1].status = "failed"
        /\ async_result[q][1].execution_id = responses[q][1].execution_id

--------------------------------------------------------------------------
--------------------------------------------------------------------------
(* C11: in validate_recommendations a failure concerning one               *)
(* recommendation never aborts the batch: whatever the lookup raises or    *)
(* returns for it, the step does not return status failed, and every       *)
(* recommendation that carries its fields is still looked up.              *)
C11_ValidateNeverAborts ==
    \A r \in RunIds :
        StepReturned(r, "validate_recommendations") =>
            LET res == workflow_results[r]["validate_recommendations"]
                recs == step_context[r].recommendations
                carrying == SelectSeq(recs, C4_Carries)
            IN /\ res.status # "failed"
               /\ Len(ValidateLookups(r)) = Len(carrying)

--------------------------------------------------------------------------
(* C12: the runner returns a structured result for every step name and     *)
(* every action name and never raises: a run in progress can always go on, *)
(* a finished run carries a workflow status; execute_workflow_step on an   *)
(* unregistered name returns status failed without any external call; and  *)
(* run() with an action name that is not in the registry ends with         *)
(* workflow status failed.                                                 *)
C12_StructuredFailure ==
    \A r \in RunIds :
        /\ pc[r] \notin {"idle", "done"} => ENABLED RunStep(r)
        /\ pc[r] = "done" =>
              /\ "status" \in DOMAIN workflow_results[r]
              /\ workflow_results[r].status \in {"failed", "completed"}
        /\ \A i \in 1..Len(executed[r]) :
              (executed[r][i] \notin WORKFLOW_STEPS /\ StepReturned(r, executed[r][i])) =>
                  /\ workflow_results[r][executed[r][i]].status = "failed"
                  /\ workflow_results[r][executed[r][i]].error.arg = executed[r][i]
                  /\ calls[r] = <<>>
        /\ (pc[r] = "done" /\ ActionKey(action[r]) \notin DOMAIN WORKFLOW_LIBRARY) =>
              workflow_results[r].status = "failed"

\* A run with an action name that is not registered has ended: it failed at
\* the first step of the fallback blueprint, which is not a registered step.
C12_Witness ==
    \E r \in RunIds :
        /\ action[r] = "no_such_action"
        /\ pc[r] = "done"
        /\ executed[r] = <<"collect_cost_evidence">>
        /\ workflow_results[r]["collect_cost_evidence"].status = "failed"
        /\ workflow_results[r].status = "failed"
        /\ calls[r] = <<>>

--------------------------------------------------------------------------
(* Properties of the collector: helpers *)

\* The collector returned its JSON result.
Collected == col_pc = "done" /\ "json" \in DOMAIN col_result[1]

\* The identifier of the resource a recommendation is about.
ResourceId(rec) ==
    IF "instance_id" \in DOMAIN rec THEN rec.instance_id
    ELSE IF "function_name" \in DOMAIN rec THEN rec.function_name
    ELSE rec.bucket_name

PolicySourced(rec) == rec.recommendation_source = "Company Cost Policy"

AdvisorySourced(rec) == rec.recommendation_source = "Compute Optimizer"

--------------------------------------------------------------------------
\* C13: in the list the collector returns, whatever kinds were requested,
\* every policy-sourced recommendation stands before every recommendation
\* of Compute Optimizer, and no resource has a recommendation of both
\* sources.
C13_PolicyBeforeAdvisory ==
    Collected =>
        LET recs == col_result[1].json.recommendations
        IN \A i \in 1..Len(recs), j \in 1..Len(recs) :
               (PolicySourced(recs[i]) /\ AdvisorySourced(recs[j])) =>
                   /\ i < j
                   /\ ResourceId(recs[i]) # ResourceId(recs[j])

--------------------------------------------------------------------------
\* The list the collector merged from all its sources, before any cut.
Merged ==
    col.policy_violations \o col.metrics_recommendations \o col.recommendations
        \o col.lambda_recs \o col.s3_recs

--------------------------------------------------------------------------
\* The call that lists the resources of a kind.
InventoryCall(kind) ==
    CASE kind = "EC2" -> "describe_instances"
      [] kind = "Lambda" -> "list_functions"
      [] kind = "S3" -> "list_buckets"

\* The collector made the call op, and the call raised.
CallRaised(op) ==
    \E i \in 1..Len(col_calls) : col_calls[i].op = op /\ col_calls[i].raised

\* The collector made the call op.
Called(op) == \E i \in 1..Len(col_calls) : col_calls[i].op = op

\* C15: when the inventory call of one kind failed, the collector still
\* returns its aggregate result, the result carries a warning, and the
\* inventory of every other requested kind was taken.
C15_InventoryFailureIsolated ==
    col_pc = "done" =>
        \A kind \in col_in.resource_types :
            CallRaised(InventoryCall(kind)) =>
                /\ Collected
                /\ "warnings" \in DOMAIN col_result[1].json
                /\ \A other \in col_in.resource_types :
                       Called(InventoryCall(other))

--------------------------------------------------------------------------
(* Properties of the policy helpers: helpers *)

\* The keys under which the policies list their forbidden patterns.
DisallowedKeys ==
    {"disallowed_instance_types", "disallowed_instance_classes",
     "disallowed_volume_types", "disallowed_node_types"}

\* The forbidden patterns of a service's policy.
DisallowedPatterns(service) ==
    LET policy == get_policy(service)
    IN UNION {{policy[key][i] : i \in 1..Len(policy[key])} :
                  key \in DisallowedKeys \cap DOMAIN policy}

\* An anchored glob match on strings of characters: "*" stands for any run
\* of characters, every other character for itself.
RECURSIVE GlobMatch(_, _)
GlobMatch(pattern, value) ==
    IF pattern = <<>> THEN value = <<>>
    ELSE IF Head(pattern) = "*"
    THEN \E n \in 0..Len(value) :
            GlobMatch(Tail(pattern), SubSeq(value, n + 1, Len(value)))
    ELSE /\ value # <<>>
         /\ Head(value) = Head(pattern)
         /\ GlobMatch(Tail(pattern), Tail(value))

\* The value matches a forbidden pattern of the service's policy.
MatchesDisallowed(value, service) ==
    \E pattern \in DisallowedPatterns(service) :
        GlobMatch(Chars(pattern), Chars(value))

--------------------------------------------------------------------------
\* C16: is_instance_type_allowed(v, kind) is false exactly when v fully
\* matches one of the forbidden patterns of the kind's policy; for a kind
\* without a policy everything is allowed.
C16_DisallowedIffMatch ==
    pol_allowed # <<>> =>
        (pol_allowed[1] = FALSE <=>
            MatchesDisallowed(pol_in[1].instance_type, pol_in[1].service))

--------------------------------------------------------------------------
\* The keys under which the policies list their recommended values.
RecommendedKeys == {"recommended_types", "recommended_classes"}

\* The recommended values of a service's policy, in the order listed.
RecommendedValues(service) ==
    LET policy == get_policy(service)
        keys == RecommendedKeys \cap DOMAIN policy
    IN IF keys = {} THEN <<>> ELSE policy[CHOOSE key \in keys : TRUE]

\* The value names a medium size: it ends in ".medium".
IsMedium(value) ==
    LET chars == Chars(value)
    IN /\ Len(chars) >= 7
       /\ SubSeq(chars, Len(chars) - 6, Len(chars)) =
              <<".", "m", "e", "d", "i", "u", "m">>

\* C17: get_recommended_type(current, kind) returns the medium-size value
\* of the kind's recommended values if there is one, else the first
\* recommended value, else current; for ec2 and r5.large the type is
\* reported as disallowed and the recommended type is t3.medium.
C17_MediumElseFirstElseCurrent ==
    /\ pol_recommended # <<>> =>
           LET recommended == RecommendedValues(pol_in[1].service)
               mediums == SelectSeq(recommended, IsMedium)
           IN pol_recommended[1] =
                  IF mediums # <<>> THEN mediums[1]
                  ELSE IF recommended # <<>> THEN recommended[1]
                  ELSE pol_in[1].instance_type
    /\ (pol_in[1] = [instance_type |-> "r5.large", service |-> "ec2"]
            /\ pol_allowed # <<>> /\ pol_recommended # <<>>) =>
           (pol_allowed[1] = FALSE /\ pol_recommended[1] = "t3.medium")

--------------------------------------------------------------------------
(* Properties of the cost analysis: helpers *)

\* analyze_cost returned its report.
Reported == ana_pc = "done" /\ "response" \in DOMAIN ana_result[1]

\* The optional queries: the argument that asks for each, the warning its
\* failure leaves, and the place of its part of the report.
SubQueries ==
    {[op |-> "get_cost_forecast", include |-> "include_forecast",
      warning |-> "Unable to retrieve forecast", part |-> <<"forecast">>],
     [op |-> "get_savings_plans_coverage", include |-> "include_savings",
      warning |-> "Savings Plans coverage unavailable",
      part |-> <<"coverage", "savingsPlans">>],
     [op |-> "get_reservation_coverage", include |-> "include_savings",
      warning |-> "Reserved Instance coverage unavailable",
      part |-> <<"coverage", "reservedInstances">>],
     [op |-> "get_anomalies", include |-> "include_anomalies",
      warning |-> "Anomaly detection unavailable", part |-> <<"anomalies">>]}

\* The records of the query op in the log of analyze_cost.
QueriesOf(op) == SelectSeq(ana_calls, LAMBDA c : c.op = op)

\* The report has the part.
HasPart(response, part) ==
    /\ part[1] \in DOMAIN response
    /\ Len(part) = 2 => part[2] \in DOMAIN response[part[1]]

\* How often the warning stands in the report.
WarningCount(response, warning) ==
    Len(SelectSeq(Get(response, "warnings", <<>>), LAMBDA w : w = warning))

--------------------------------------------------------------------------
\* C18: once the core of the report was computed, analyze_cost returns the
\* report whatever the optional queries do: every query asked for is made
\* once; a query that fails leaves exactly its own warning and only its own
\* part is missing; a query that returns data has its part in the report;
\* and the report has no other warnings.
C18_SubQueriesFailIndependently ==
    (ana_pc = "done" /\ QueriesOf("get_cost_and_usage") # <<>>
        /\ ~ QueriesOf("get_cost_and_usage")[1].raised) =>
        /\ Reported
        /\ {"period", "biggestMovers"} \subseteq DOMAIN ana_result[1].response
        /\ LET response == ana_result[1].response
           IN /\ \A q \in SubQueries :
                    LET made == QueriesOf(q.op)
                    IN /\ Len(made) = IF ana_in[q.include] THEN 1 ELSE 0
                       /\ WarningCount(response, q.warning) =
                              IF made # <<>> /\ made[1].raised THEN 1 ELSE 0
                       /\ HasPart(response, q.part) <=>
                              (made # <<>> /\ made[1].data)
              /\ Len(Get(response, "warnings", <<>>)) =
                     Cardinality({q \in SubQueries :
                                     /\ QueriesOf(q.op) # <<>>
                                     /\ QueriesOf(q.op)[1].raised})

\* The Savings Plans query and the forecast failed, the reservation query
\* and the anomaly query returned data: the report has two warnings, the
\* reservation coverage and the anomalies.
C18_Witness ==
    /\ Reported
    /\ QueriesOf("get_savings_plans_coverage") # <<>>
    /\ QueriesOf("get_savings_plans_coverage")[1].raised
    /\ QueriesOf("get_cost_forecast") # <<>>
    /\ QueriesOf("get_cost_forecast")[1].raised
    /\ QueriesOf("get_reservation_coverage")[1].data
    /\ QueriesOf("get_anomalies") # <<>>
    /\ QueriesOf("get_anomalies")[1].data
    /\ Len(ana_result[1].response.warnings) = 2
    /\ DOMAIN ana_result[1].response.coverage = {"reservedInstances"}
    /\ "anomalies" \in DOMAIN ana_result[1].response

--------------------------------------------------------------------------
\* C19: in the report every riser has an amountDelta above zero, every
\* decliner one below zero, and every label of a mover is a label of a
\* group of the current or of the previous period.
C19_MoversSigned ==
    Reported =>
        LET movers == ana_result[1].response.biggestMovers
            labels == (DOMAIN ana.group_aggregates_current)
                          \cup (DOMAIN ana.group_aggregates_previous)
        IN /\ \A i \in 1..Len(movers.risers) :
                  /\ movers.risers[i].amountDelta > 0
                  /\ movers.risers[i].label \in labels
           /\ \A i \in 1..Len(movers.decliners) :
                  /\ movers.decliners[i].amountDelta < 0
                  /\ movers.decliners[i].label \in labels

--------------------------------------------------------------------------
(* Properties of the executor tools: helpers *)

\* The messages with which a tool reports success.
SuccessTexts == {SuccessText[tool] : tool \in ToolNames}

\* Every message a tool can return.
ToolTexts ==
    SuccessTexts \cup {FailedText[tool] : tool \in ToolNames}
        \cup {ErrorText[tool] : tool \in ToolNames}
        \cup {"Instance is expected type but in state", "Verification failed"}

\* The calls of the tool that changed, or tried to change, the resource.
MutatingCalls == SelectSeq(exe_calls, LAMBDA c : c.mutating)

\* A step of the tool that was called.
ToolStepTaken == ToolCall \/ ToolExcept \/ ToolReturn

--------------------------------------------------------------------------
\* C20: a tool that was called always goes on to return a message and
\* nothing else ends it; the message is one of its success or failure
\* messages; it reports success only after every external call and wait of
\* the tool was made and returned; and the call that changes the resource
\* is made at most once.
C20_ToolsReturnMessages ==
    /\ exe_pc \in {"call", "except", "return"} => ENABLED ToolStepTaken
    /\ exe_pc = "done" =>
           /\ exe_result # <<>>
           /\ exe_result[1].text \in ToolTexts
           /\ exe_result[1].target = exe_in.target
           /\ exe_result[1].text \in SuccessTexts =>
                  /\ Len(exe_calls) = Len(ToolCalls[exe_in.tool])
                  /\ \A i \in 1..Len(exe_calls) :
                         /\ exe_calls[i].op = ToolCalls[exe_in.tool][i].op
                         /\ exe_calls[i].outcome = "ok"
    /\ exe_pc # "idle" => Len(MutatingCalls) <= 1

\* ec2_stop_instance stopped the instance, the waiter gave up, and the tool
\* returned its error message after one stop_instances.
C20_Witness ==
    /\ exe_pc = "done"
    /\ exe_in.tool = "ec2_stop_instance"
    /\ Len(exe_calls) = 2
    /\ exe_calls[1].outcome = "ok"
    /\ exe_calls[2].outcome = "WaiterError"
    /\ exe_result[1].text = "Error stopping instance"
    /\ Len(MutatingCalls) = 1

--------------------------------------------------------------------------
(* C22: in a run of optimize_existing_instances a mutating call            *)
(* (stop_instances, modify_instance_attribute, start_instances) is issued   *)
(* only for an instance that validate_recommendations returned as          *)
(* validated earlier in the same run, after a lookup that found it running; *)
(* when validation failed or validated nothing the run issues no mutating   *)
(* call.                                                                   *)
MutatingOps == {"stop_instances", "modify_instance_attribute", "start_instances"}

\* What validate_recommendations returned as validated in run r, <<>> when
\* it has not returned or returned without the list.
ReturnedValidated(r) ==
    IF StepReturned(r, "validate_recommendations")
    THEN Get(workflow_results[r]["validate_recommendations"],
             "validated_recommendations", <<>>)
    ELSE <<>>

C22_MutatesOnlyValidated ==
    \A r \in RunIds :
        \A j \in 1..Len(calls[r]) :
            calls[r][j].op \in MutatingOps =>
                /\ StepReturned(r, "validate_recommendations")
                /\ workflow_results[r]["validate_recommendations"].status = "success"
                /\ \E i \in 1..Len(ReturnedValidated(r)) :
                       ReturnedValidated(r)[i].instance_id = calls[r][j].id
                /\ \E a \in 1..(j - 1) :
                       /\ calls[r][a].op = "describe_instances"
                       /\ calls[r][a].id = calls[r][j].id
                       /\ calls[r][a].seen.kind = "found"
                       /\ calls[r][a].seen.state = "running"

\* Two recommendations were submitted; the lookup found i-1 running and i-2
\* stopped, and the run stopped, modified and started i-1 only.
C22_Witness ==
    \E r \in RunIds :
        /\ pc[r] = "done"
        /\ Len(step_context[r].recommendations) = 2
        /\ Len(ReturnedValidated(r)) = 1
        /\ \E a \in 1..Len(calls[r]) :
               /\ calls[r][a].op = "describe_instances"
               /\ calls[r][a].id = "i-2"
               /\ calls[r][a].seen.state = "stopped"
        /\ \E j \in 1..Len(calls[r]) :
               calls[r][j].op = "start_instances" /\ calls[r][j].id = "i-1"
        /\ \A j \in 1..Len(calls[r]) :
               calls[r][j].op \in MutatingOps => calls[r][j].id = "i-1"

--------------------------------------------------------------------------
(* C24 as stated: when the stopped-wait or the modify fails for an         *)
(* instance, no start_instances is issued for that instance anywhere in    *)
(* the run.                                                                *)
FailsAfterStop(c) ==
    c.op \in {"wait_stopped", "modify_instance_attribute"} /\ c.outcome # "ok"

C24_NoStartInRun ==
    \A r \in RunIds :
        \A j \in 1..Len(calls[r]) :
            FailsAfterStop(calls[r][j]) =>
                \A b \in 1..Len(calls[r]) :
                    ~(calls[r][b].op = "start_instances" /\ calls[r][b].id = calls[r][j].id)

\* The number of stop calls among the first j calls of run r: the index of
\* the validated recommendation that call j belongs to.
IterationOf(r, j) ==
    Cardinality({a \in 1..j : calls[r][a].op = "stop_instances"})

(* C24 amended: apply_rightsizing has no compensation.  start_instances is  *)
(* issued only directly after modify_instance_attribute succeeded for the   *)
(* same instance; when the stopped-wait or the modify fails after a         *)
(* successful stop call, that recommendation's processing ends there: the   *)
(* next call of the run, if any, is the stop of the next recommendation or  *)
(* a re-read of verify_optimization, and the recommendation's applied-      *)
(* change record has status failed with the error of the failing call.     *)
C24_NoCompensation ==
    \A r \in RunIds :
        LET cs == calls[r]
        IN /\ \A j \in 1..Len(cs) :
                cs[j].op = "start_instances" =>
                    /\ j > 1
                    /\ cs[j - 1].op = "modify_instance_attribute"
                    /\ cs[j - 1].id = cs[j].id
                    /\ cs[j - 1].outcome = "ok"
           /\ \A j \in 1..Len(cs) :
                FailsAfterStop(cs[j]) =>
                    /\ \E s \in {j - 1, j - 2} :
                           /\ s >= 1
                           /\ cs[s].op = "stop_instances"
                           /\ cs[s].id = cs[j].id
                           /\ cs[s].outcome = "ok"
                    /\ j < Len(cs) => cs[j + 1].op \in {"stop_instances", "describe_instances"}
                    /\ Len(AppliedSoFar(r)) >= IterationOf(r, j)
                    /\ AppliedSoFar(r)[IterationOf(r, j)].instance_id = cs[j].id
                    /\ AppliedSoFar(r)[IterationOf(r, j)].status = "failed"
                    /\ AppliedSoFar(r)[IterationOf(r, j)].error = cs[j].outcome

\* The modify failed after the instance was stopped: the run ended without
\* any start call, and the instance's record is failed.
C24_Witness ==
    \E r \in RunIds :
        LET cs == calls[r]
        IN /\ pc[r] = "done"
           /\ \E j \in 3..Len(cs) :
                  /\ cs[j].op = "modify_instance_attribute"
                  /\ cs[j].outcome = "ClientError"
                  /\ cs[j - 2].op = "stop_instances"
                  /\ cs[j - 2].outcome = "ok"
           /\ \A b \in 1..Len(cs) : cs[b].op # "start_instances"
           /\ Len(AppliedSoFar(r)) = 1
           /\ AppliedSoFar(r)[1].status = "failed"
           /\ workflow_results[r].status = "failed"

--------------------------------------------------------------------------
(* C25: when apply_rightsizing has returned on a non-empty validated list,  *)
(* instances_modified + instances_failed is the number of validated        *)
(* recommendations and the step's status is success exactly when some       *)
(* record has status success.  A run in which every validated instance     *)
(* failed ends failed at apply_rightsizing without executing               *)
(* verify_optimization, so that no verification record exists; a run with   *)
(* a successful instance goes on to verify_optimization.                   *)
Executed(r, name) == \E i \in 1..Len(executed[r]) : executed[r][i] = name

C25_ApplyCountsAndStatus ==
    \A r \in RunIds :
        LET validated == Get(step_context[r], "validated_recommendations", <<>>)
        IN (StepReturned(r, "apply_rightsizing") /\ validated # <<>>) =>
             LET result == workflow_results[r]["apply_rightsizing"]
                 records == result.applied_changes
                 succeeded == \E n \in 1..Len(records) : records[n].status = "success"
             IN /\ result.summary.instances_modified + result.summary.instances_failed
                       = Len(validated)
                /\ result.summary.instances_modified
                       = Cardinality({n \in 1..Len(records) : records[n].status = "success"})
                /\ result.status = "success" <=> succeeded
                /\ ~succeeded =>
                       /\ pc[r] = "done"
                       /\ workflow_results[r].status = "failed"
                       /\ workflow_results[r].message.arg = "apply_rightsizing"
                       /\ ~Executed(r, "verify_optimization")
                       /\ "verification_results" \notin DOMAIN step_context[r]
                       /\ \A j \in 1..Len(calls[r]) : ~IsVerifyIdx(calls[r], j)
                /\ succeeded =>
                       /\ pc[r] = "loop" => StepName(r) = "verify_optimization"
                       /\ pc[r] # "loop" => Executed(r, "verify_optimization")

\* Both validated instances failed to apply: the run ended at
\* apply_rightsizing with two failed records and nothing was verified.
C25_Witness ==
    \E r \in RunIds :
        /\ pc[r] = "done"
        /\ StepReturned(r, "apply_rightsizing")
        /\ Len(step_context[r].validated_recommendations) = 2
        /\ workflow_results[r]["apply_rightsizing"].summary.instances_failed = 2
        /\ workflow_results[r]["apply_rightsizing"].summary.instances_modified = 0
        /\ workflow_results[r]["apply_rightsizing"].status = "failed"
        /\ ~Executed(r, "verify_optimization")

--------------------------------------------------------------------------
(* C26: of the blueprints in the workflow registry only                    *)
(* optimize_existing_instances consists of registered steps, and the first  *)
(* step of every other blueprint is unregistered.  A run of any other       *)
(* action, an unknown name included (it falls back to the rightsizing       *)
(* blueprint), executes exactly one step, ends with status failed at that   *)
(* first step, and issues no external call.                                *)
AllRegistered(blueprint) ==
    \A i \in 1..Len(blueprint) : blueprint[i] \in WORKFLOW_STEPS

C26_OtherActionsFailAtFirstStep ==
    /\ \A key \in DOMAIN WORKFLOW_LIBRARY :
           /\ AllRegistered(WORKFLOW_LIBRARY[key]) <=> key = "optimize_existing_instances"
           /\ key # "optimize_existing_instances" =>
                  WORKFLOW_LIBRARY[key][1] \notin WORKFLOW_STEPS
    /\ \A r \in RunIds :
           (action[r] # None /\ ActionKey(action[r]) # "optimize_existing_instances") =>
               /\ calls[r] = <<>>
               /\ Len(executed[r]) <= 1
               /\ pc[r] \in {"pending", "loop", "done"}
               /\ pc[r] = "loop" => executed[r] = <<>>
               /\ pc[r] = "done" =>
                      /\ executed[r] = <<Blueprint(r)[1]>>
                      /\ workflow_results[r].status = "failed"
                      /\ workflow_results[r].message.arg = Blueprint(r)[1]
                      /\ workflow_results[r][Blueprint(r)[1]].status = "failed"

\* A run of an unknown action on a recommendation that would validate: it
\* ended at the first step of the rightsizing blueprint, without any call.
C26_Witness ==
    \E r \in RunIds :
        /\ action[r] = "no_such_action"
        /\ pc[r] = "done"
        /\ step_context[r].recommendations = <<RecEc2>>
        /\ executed[r] = <<"collect_cost_evidence">>
        /\ workflow_results[r].status = "failed"
        /\ calls[r] = <<>>

--------------------------------------------------------------------------
(* C27: analyze_cost splits the time buckets the cost query returned into   *)
(* a current period and a previous period that stands immediately before   *)
(* it: the two are adjacent, do not overlap, and hold the same number of    *)
(* data points, for every number of days, granularity and number of        *)
(* buckets returned.                                                       *)
Split == ana_pc # "core" /\ (ana_result = <<>> \/ "raised" \notin DOMAIN ana_result[1])

C27_PeriodsAdjacentAndEqual ==
    Split =>
        LET buckets == ana.usage_results
            current == ana.current_period
            previous == ana.previous_period
            taken == Len(previous) + Len(current)
        IN /\ taken <= Len(buckets)
           /\ previous \o current = SubSeq(buckets, Len(buckets) - taken + 1, Len(buckets))
           /\ Len(current) = Len(previous)

\* ---------------------------------------------------------------------
\* C29: in the collector's response estimated_total_monthly_savings is the
\* sum of estimated_monthly_savings over the recommendations it returns and
\* total_recommendations is the length of that list, also when the merged
\* list was cut to limit.
CollectorReturned == col_result # <<>> /\ "json" \in DOMAIN col_result[1]

C29_TotalsMatchReturned ==
    CollectorReturned =>
        LET body == col_result[1].json
        IN /\ body.total_recommendations = Len(body.recommendations)
           /\ ParseDollars(body.estimated_total_monthly_savings)
                  = ShownSavings(body.recommendations)

\* The length part of C29 alone.
C29_CountMatchesReturned ==
    CollectorReturned =>
        col_result[1].json.total_recommendations
            = Len(col_result[1].json.recommendations)

\* ---------------------------------------------------------------------
\* C21: the execution plan of a submit has, for each resource_type present
\* in the batch, a section headed with the size of that group which lists
\* the first 3 recommendations of the group and tells the number of the
\* others if and only if the group has more than 3.
PlanBuilt == plan_out # <<>>

\* The section of the plan about the recommendations of one resource type.
SectionOf(plan, rtype, group) ==
    {i \in 1..Len(plan.sections) :
        /\ plan.sections[i].count = Len(group)
        /\ rtype \in {"EC2", "S3", "Lambda"}
        /\ plan.sections[i].lines =
               [j \in 1..Len(First3(group)) |-> PlanLine(rtype, First3(group)[j])]
        /\ (plan.sections[i].more # <<>>) <=> (Len(group) > 3)
        /\ Len(group) > 3 => plan.sections[i].more = <<Len(group) - 3>>}

C21_SectionPerResourceType ==
    PlanBuilt =>
        \A rtype \in {ResourceType(plan_in[i]) : i \in 1..Len(plan_in)} :
            SectionOf(plan_out[1], rtype,
                      SelectSeq(plan_in, LAMBDA rec : ResourceType(rec) = rtype)) # {}

\* The same for the three resource types the plan knows.
C21_SectionPerKnownType ==
    PlanBuilt =>
        \A rtype \in {"EC2", "S3", "Lambda"} :
            LET group == SelectSeq(plan_in, LAMBDA rec : ResourceType(rec) = rtype)
            IN group # <<>> => SectionOf(plan_out[1], rtype, group) # {}

\* ---------------------------------------------------------------------
\* C23: the entrypoint of the workflow execution agent hands to the agent
\* only recommendations that the request contained; when the request
\* carries an empty or unparseable list the agent is not called and no
\* mutating tool is used.
RequestedRecommendations == ParsedRecommendations(UserInput(wf_in))

MutatingTools ==
    {"ec2_stop_instance", "ec2_modify_instance_type", "ec2_start_instance",
     "s3_put_lifecycle_policy", "lambda_update_memory",
     "lambda_update_concurrency", "rds_modify_instance", "ebs_modify_volume"}

Handed == IF wf_pc = "idle" \/ wf.prompt = <<>> THEN <<>> ELSE wf.prompt[1]

C23_OnlyRequestedExecuted ==
    wf_pc # "idle" =>
        /\ \A i \in 1..Len(Handed) :
              \E j \in 1..Len(RequestedRecommendations) :
                  Handed[i] = RequestedRecommendations[j]
        /\ RequestedRecommendations = <<>> =>
              /\ wf.prompt = <<>>
              /\ \A i \in 1..Len(wf_calls) : wf_calls[i].op \notin MutatingTools

\* The part of C23 about a request that holds recommendations: the agent
\* is handed exactly those and nothing is fetched.
C23_RequestedHandedUnchanged ==
    (wf_pc # "idle" /\ RequestedRecommendations # <<>>) =>
        /\ wf.prompt # <<>> => wf.prompt[1] = RequestedRecommendations
        /\ \A i \in 1..Len(wf_calls) : wf_calls[i].op # "describe_instances"

\* ---------------------------------------------------------------------
\* C28: _paginate_recommendations terminates and returns at most limit
\* rows for every sequence of responses of the service; it asks for a
\* further page only while the response before carried a next token and
\* fewer than limit rows are collected, and passes that token on.
PaginateEnded == pag_pc \in {"returned", "raised"}

\* The rule of C28 about the pages asked for and the size of the result.
PaginatesWithinLimit ==
    /\ pag_pc = "returned" => Len(pag_result[1]) <= pag_in.limit
    /\ (pag_pc = "loop" /\ pag_request # <<>>) =>
           Truthy(pag.next_token) /\ Len(pag.collected) < pag_in.limit

C28_PassesTokenOn ==
    [][(pag_pc = "loop" /\ pag_pc' # "idle") =>
          pag_request'[1] = RequestArgs(pag_in.limit, pag.next_token)]_vars

C28_TerminatesWithinLimit ==
    /\ [](pag_pc # "idle" => PaginatesWithinLimit)
    /\ <>(pag_pc # "idle" => PaginateEnded)

\* The part of C28 that is a safety property.
C28_WithinLimit == pag_pc # "idle" => PaginatesWithinLimit

\* ---------------------------------------------------------------------
\* C30: for one POST /v1/execute-workflow request the in-process runner is
\* invoked if and only if no workflow agent endpoint is configured or the
\* endpoint answered with a status other than 200; in the latter case the
\* same recommendations went to both engines, and a 200 answer ends the
\* request without the runner.
ExecuteEnded == ew_pc = "done"

RunnerInvoked == ew_run # <<>>

NoEndpoint == ~ Truthy(WORKFLOW_AGENT_ENDPOINT)

AnsweredNot200 ==
    ew_answer # <<>> /\ ~ ew_answer[1].raised /\ ew_answer[1].status_code # 200

C30_RunnerIffNoEndpointOrNot200 ==
    ExecuteEnded => (RunnerInvoked <=> (NoEndpoint \/ AnsweredNot200))

\* C30 for a request whose body parses, in a deployment that has the
\* in-process runner: the equivalence above; the runner is not started
\* before the handler knows the answer; what it gets is what was posted.
C30_FallbackOnlyWithoutOr200 ==
    /\ (ExecuteEnded /\ ew_request.body_ok /\ STRANDS_AVAILABLE) =>
           (RunnerInvoked <=> (NoEndpoint \/ AnsweredNot200))
    /\ (ew_pc # "idle" /\ RunnerInvoked) => (NoEndpoint \/ AnsweredNot200)
    /\ (ew_pc # "idle" /\ RunnerInvoked /\ ew_posted # <<>>) =>
           ew_run[1].recommendations = ew_posted[1].json.recommendations
    /\ (ew_pc # "idle" /\ ~ RunnerInvoked) => pc[EwRun] = "idle"
    /\ (ExecuteEnded /\ ew_answer # <<>> /\ ~ ew_answer[1].raised
          /\ ew_answer[1].status_code = 200) =>
           /\ ~ RunnerInvoked
           /\ calls[EwRun] = <<>>

\* The endpoint answered 503, the recommendation went to the runner as
\* well, and the runner has changed the instance.
C30_Witness ==
    /\ ExecuteEnded
    /\ AnsweredNot200
    /\ ew_posted # <<>>
    /\ ew_posted[1].json.recommendations = <<RecEc2>>
    /\ ew_run = <<[recommendations |-> <<RecEc2>>]>>
    /\ \E i \in 1..Len(calls[EwRun]) : calls[EwRun][i].op = "modify_instance_attribute"

====
